---- MODULE Spec2Model ----
(***************************************************************************)
(* A model of the forge-integration layer of opencode-review-gitea: the    *)
(* Gitea provider (signature verification, webhook normalisation, review   *)
(* submission), the webhook route of the server and the background review  *)
(* task it spawns.                                                         *)
(*                                                                         *)
(* Text is modelled as a sequence of one-character strings, so that        *)
(* prefixes, lengths and regular-expression matches are computed.          *)
(***************************************************************************)
EXTENDS Integers, Sequences, FiniteSets, TLC

VARIABLES
    \* ---- server state (packages/server) ----
    repositories,   \* the repositories table: id -> row
    reviews,        \* the reviews table: review id -> row (NoRow before the insert)
    webhookLogs,    \* the webhook_logs table: log id -> row (a sequence, ids 1..Len)
    task,           \* executeReviewAsync, one per review id: position, captured error, arguments
    request,        \* the webhook request handled last
    response,       \* the response the webhook route returned for it
    errorLog,       \* review ids whose task promise rejected (logged by the .catch of the route)
    deliveries,     \* how many webhook requests have been handled
    \* ---- GiteaProvider.createReview, one call ----
    cr,
    \* ---- a call of a pure function: its arguments and its return value ----
    call,
    ret

vars == <<repositories, reviews, webhookLogs, task, request, response, errorLog, deliveries,
         cr, call, ret>>

serverVars == <<repositories, reviews, webhookLogs, task, request, response, errorLog, deliveries>>

(***************************************************************************)
(* Bounds of the model.                                                    *)
(***************************************************************************)
\* webhook deliveries handled in one behaviour
MaxDeliveries == 2
\* comments of one createReview call
MaxComments == 3

(***************************************************************************)
(* Text helpers.                                                           *)
(***************************************************************************)
HexDigits == <<"0","1","2","3","4","5","6","7","8","9","a","b","c","d","e","f">>

\* The characters the model's texts are written in. "U+00E9" stands for the one
\* non-ASCII character (two bytes in UTF-8).
Alphabet == HexDigits \o
    <<"h", "s", "=", "k", "z", "n", "{", "}", "x", "U+00E9", "/", " ", "!", "_",
      "o", "p", "A", "C", "D", "E", "N", "O", "P">>

\* the code of each character
CharCodes ==
    [c \in {Alphabet[i] : i \in 1..Len(Alphabet)} |->
        CHOOSE i \in 1..Len(Alphabet) : Alphabet[i] = c]

Ord(c) == CharCodes[c]

StartsWith(s, prefix) ==
    /\ Len(s) >= Len(prefix)
    /\ SubSeq(s, 1, Len(prefix)) = prefix

\* String.prototype.slice(n): the text after its first n characters.
Slice(s, n) == IF n >= Len(s) THEN <<>> ELSE SubSeq(s, n + 1, Len(s))

RECURSIVE Utf8(_)
\* Buffer.from(s, 'utf8'): one byte per ASCII character, two for U+00E9.
Utf8(s) ==
    IF s = <<>> THEN <<>>
    ELSE (IF Head(s) = "U+00E9" THEN <<195, 169>> ELSE <<Ord(Head(s))>>) \o Utf8(Tail(s))

(***************************************************************************)
(* HMAC-SHA256 (node:crypto). The digest is a keyed, deterministic function *)
(* of the payload; its hex form has DigestLen lowercase hex digits.  The    *)
(* model computes each digit from a rolling mix of key and payload.         *)
(***************************************************************************)
DigestLen == 64

RECURSIVE Mix(_, _)
Mix(s, acc) ==
    IF s = <<>> THEN acc
    ELSE Mix(Tail(s), (acc * 31 + Ord(Head(s)) + 7) % 65521)

\* createHmac('sha256', secret).update(payload).digest('hex')
Hmac(payload, secret) ==
    [i \in 1..DigestLen |->
        HexDigits[(Mix(payload, Mix(secret, i * 17)) % 16) + 1]]

\* The mutant: the length check is dropped and only the common prefix is compared.
VerifyHmacSha256Prefix(payload, signature, secret) ==
    LET digest == Hmac(payload, secret)
        n == IF Len(signature) < Len(digest) THEN Len(signature) ELSE Len(digest)
    IN  SubSeq(signature, 1, n) = SubSeq(digest, 1, n)

\* BaseProvider.verifyHmacSha256: buffers of different length are unequal, equal
\* lengths are compared byte by byte (timingSafeEqual); nothing is thrown.
VerifyHmacSha256(payload, signature, secret) ==
    LET digest == Hmac(payload, secret)
        sigBuffer == Utf8(signature)
        digestBuffer == Utf8(digest)
    IN  IF Len(sigBuffer) # Len(digestBuffer) THEN FALSE
        ELSE sigBuffer = digestBuffer

Sha256Prefix == <<"s","h","a","2","5","6","=">>

\* GiteaProvider.verifyWebhookSignature
VerifyWebhookSignature(payload, signature, secret) ==
    IF ~StartsWith(signature, Sha256Prefix) THEN FALSE
    ELSE VerifyHmacSha256(payload, Slice(signature, 7), secret)

(***************************************************************************)
(* Regular expressions of GiteaProvider.extractTriggers.                   *)
(***************************************************************************)
UpperCase == <<"A", "C", "D", "E", "N", "O", "P">>
LowerCase == <<"a", "c", "d", "e", "n", "o", "p">>

\* The i flag: a letter matches in either case.
Lower(c) ==
    IF \E i \in 1..Len(UpperCase) : UpperCase[i] = c
    THEN LowerCase[CHOOSE i \in 1..Len(UpperCase) : UpperCase[i] = c]
    ELSE c

\* \w of a JavaScript regular expression: [A-Za-z0-9_]
IsWordChar(c) ==
    c \in ({Alphabet[i] : i \in 1..Len(Alphabet)} \ {"=", "{", "}", "U+00E9", "/", " ", "!"})

\* /<token>\b/i matches at index i of body: the token, in either case, followed by
\* the end of the text or by a character that is not a word character.
MatchesAt(body, i, token) ==
    /\ i + Len(token) - 1 <= Len(body)
    /\ \A k \in 1..Len(token) : Lower(body[i + k - 1]) = token[k]
    /\ \/ i + Len(token) > Len(body)
       \/ ~IsWordChar(body[i + Len(token)])

RegexTest(body, token) == \E i \in 1..Len(body) : MatchesAt(body, i, token)

TokenOc == <<"/", "o", "c">>
TokenOpencode == <<"/", "o", "p", "e", "n", "c", "o", "d", "e">>

\* GiteaProvider.extractTriggers
ExtractTriggers(body) ==
    (IF RegexTest(body, TokenOc) THEN <<"/oc">> ELSE <<>>)
        \o (IF RegexTest(body, TokenOpencode) THEN <<"/opencode">> ELSE <<>>)

(***************************************************************************)
(* Webhook payloads (GiteaWebhookPayload) and headers.                     *)
(*                                                                         *)
(* A payload is the parsed JSON document: JsonNull for a document that is  *)
(* not an object, otherwise a record that says which fields are there.     *)
(* pull_request and comment are "absent", "ok" (with their user, base and  *)
(* head) or "partial" (an object without user); issue is "absent",         *)
(* "issue" (no pull_request key) or "pr" (an issue that is a pull request).*)
(***************************************************************************)
JsonNull == [json |-> "null"]

Actions == {"opened", "synchronized", "closed", "reopened", "created", "edited", "deleted"}

Presence == {"absent", "ok", "partial"}

IssueKinds == {"absent", "issue", "pr"}

HeaderGet(headers, name) == IF name \in DOMAIN headers THEN headers[name] ELSE ""

\* a || b on header values: the first one that is not empty
Or(a, b) == IF a # "" THEN a ELSE b

Null == [kind |-> "null"]

Throw(error) == [kind |-> "throw", error |-> error]

\* GiteaProvider.mapPullRequest reads data.user.id, data.base.ref, data.head.ref
MapPullRequest(pull_request) ==
    IF pull_request = "partial" THEN Throw("TypeError") ELSE [kind |-> "value"]

\* GiteaProvider.parsePullRequestEvent
ParsePullRequestEvent(data, baseEvent) ==
    IF data.pull_request = "absent" THEN Null
    ELSE IF MapPullRequest(data.pull_request).kind = "throw" THEN Throw("TypeError")
    ELSE CASE data.action = "opened" ->
                [baseEvent EXCEPT !.type = "pull_request.opened"]
           [] data.action = "synchronized" ->
                [baseEvent EXCEPT !.type = "pull_request.updated"]
           [] data.action = "closed" ->
                [baseEvent EXCEPT !.type = "pull_request.closed"]
           [] OTHER -> Null

\* The mutant: the action of the comment event is not looked at.
ParseCommentEventAnyAction(data, baseEvent) ==
    IF data.comment = "absent" \/ data.issue = "absent" THEN Null
    ELSE IF data.comment = "partial" THEN Throw("TypeError")
    ELSE [baseEvent EXCEPT !.type = "pull_request.comment",
                           !.triggers = ExtractTriggers(data.body)]

\* GiteaProvider.parseCommentEvent; data.comment.user.id is read for the event
ParseCommentEvent(data, baseEvent) ==
    IF data.action # "created" \/ data.comment = "absent" \/ data.issue = "absent"
    THEN Null
    ELSE IF data.comment = "partial" THEN Throw("TypeError")
    ELSE [baseEvent EXCEPT !.type = "pull_request.comment",
                           !.triggers = ExtractTriggers(data.body)]

\* GiteaProvider.parseWebhookEvent: the event, Null, or the TypeError a missing
\* field raises (data.repository.full_name, data.sender.id are read unguarded).
ParseWebhookEvent(payload, headers) ==
    LET eventType == Or(HeaderGet(headers, "x-gitea-event"), HeaderGet(headers, "X-Gitea-Event"))
        deliveryId == Or(HeaderGet(headers, "x-gitea-delivery"), HeaderGet(headers, "X-Gitea-Delivery"))
        baseEvent == [kind |-> "event", id |-> Or(deliveryId, "uuid"),
                      type |-> "", triggers |-> <<>>]
    IN  IF eventType = "" THEN Null
        ELSE IF payload = JsonNull THEN Throw("TypeError")
        ELSE IF ~payload.repository \/ ~payload.sender THEN Throw("TypeError")
        ELSE CASE eventType = "pull_request" -> ParsePullRequestEvent(payload, baseEvent)
               [] eventType = "issue_comment" ->
                    IF payload.issue = "pr" THEN ParseCommentEvent(payload, baseEvent) ELSE Null
               [] OTHER -> Null

\* shouldTriggerReview (events)
ShouldTriggerReview(event) ==
    CASE event.type = "pull_request.opened" -> TRUE
      [] event.type = "pull_request.updated" -> TRUE
      [] event.type = "pull_request.comment" -> Len(event.triggers) > 0
      [] event.type = "pull_request.closed" -> FALSE
      [] OTHER -> FALSE

(***************************************************************************)
(* The server: tables, the webhook route and the background review task.   *)
(***************************************************************************)
NoSecret == <<>>

\* The configured repositories: r1 has a webhook secret, r2 has none, r3 is disabled.
\* "r0" is an id no row has.  r1 belongs to user u1, the others to u2.
RepoIds == {"r1", "r2", "r3"}

Users == {"u1", "u2"}

InitRepositories ==
    [id \in RepoIds |->
        [userId |-> IF id = "r1" THEN "u1" ELSE "u2",
         enabled |-> id # "r3",
         webhookSecret |-> IF id = "r2" THEN NoSecret ELSE <<"k">>,
         reviewCount |-> 0]]

SyntaxError == [json |-> "SyntaxError"]

\* The mutant: a body that is not JSON is taken as the document null.
JsonParseLenient(rawBody) ==
    [kind |-> "value", value |-> IF rawBody.doc = SyntaxError THEN JsonNull ELSE rawBody.doc]

\* JSON.parse(rawBody): the document, or the SyntaxError it throws
JsonParse(rawBody) ==
    IF rawBody.doc = SyntaxError THEN Throw("SyntaxError")
    ELSE [kind |-> "value", value |-> rawBody.doc]

\* the signature header: x-gitea-signature || x-hub-signature-256 || ''
SignatureOf(headers) ==
    IF "x-gitea-signature" \in DOMAIN headers /\ headers["x-gitea-signature"] # <<>>
    THEN headers["x-gitea-signature"]
    ELSE IF "x-hub-signature-256" \in DOMAIN headers
    THEN headers["x-hub-signature-256"]
    ELSE <<>>

Response(status, code) ==
    [status |-> status, code |-> code, skipped |-> FALSE, eventType |-> "",
     triggered |-> FALSE, reviewId |-> 0]

NoRequest == [repositoryId |-> "none"]

NoResponse == Response(0, "none")

\* a row of webhook_logs as the route inserts it
LogRow(repositoryId, eventType, headers, error) ==
    [repositoryId |-> repositoryId, eventType |-> eventType,
     deliveryId |-> Or(HeaderGet(headers, "x-gitea-delivery"), HeaderGet(headers, "x-github-delivery")),
     processed |-> FALSE, reviewId |-> 0, error |-> error]

\* a row of reviews as the route inserts it (db.insert(reviews).values)
NewReview(repositoryId, event, logId) ==
    [repositoryId |-> repositoryId, status |-> "pending", decision |-> "",
     summary |-> "", commentsCount |-> 0, error |-> "", completedAt |-> FALSE,
     durationMs |-> FALSE,
     triggeredBy |-> IF event.type = "pull_request.comment" THEN "comment" ELSE "webhook",
     webhookEventId |-> logId]

\* The mutant: the route awaits the review before it answers (here: a review that
\* went through without error).
StartTaskAwaited(repositoryId, repo) ==
    [pc |-> "done", repositoryId |-> repositoryId, repo |-> repo, diff |-> <<"x">>,
     error |-> "", calls |-> <<"getPullRequestDiff", "getPullRequestFiles", "createReview">>]

\* executeReviewAsync(reviewId, repo, event, provider), not awaited: the task at its
\* first statement, holding the repository row the route read.
StartTask(repositoryId, repo) ==
    [pc |-> "setProcessing", repositoryId |-> repositoryId, repo |-> repo, diff |-> <<>>,
     error |-> "", calls |-> <<>>]

\* webhookRoutes.post('/:provider/:repositoryId'), the whole handler
WebhookPost(req) ==
    LET repositoryId == req.repositoryId
        rawBody == req.rawBody
        headers == req.headers
        signature == SignatureOf(headers)
        parsed == JsonParse(rawBody)
        respond(r) == /\ response' = r
                      /\ request' = req
                      /\ deliveries' = deliveries + 1
        nothing == UNCHANGED <<repositories, reviews, webhookLogs, task, errorLog>>
    IN
    IF repositoryId \notin DOMAIN repositories
    THEN respond(Response(404, "NOT_FOUND")) /\ nothing
    ELSE LET repo == repositories[repositoryId] IN
    IF ~repo.enabled
    THEN respond([Response(200, "OK") EXCEPT !.skipped = TRUE]) /\ nothing
    ELSE IF repo.webhookSecret # NoSecret
            /\ ~VerifyWebhookSignature(rawBody.text, signature, repo.webhookSecret)
    THEN \* the log row holds JSON.parse(rawBody), evaluated before the insert
         IF parsed.kind = "throw"
         THEN respond(Response(500, "INTERNAL_ERROR")) /\ nothing
         ELSE /\ webhookLogs' = Append(webhookLogs,
                    LogRow(repositoryId, "signature_invalid", headers, "Invalid webhook signature"))
              /\ respond(Response(401, "UNAUTHORIZED"))
              /\ UNCHANGED <<repositories, reviews, task, errorLog>>
    ELSE IF parsed.kind = "throw"
    THEN respond(Response(400, "VALIDATION_ERROR")) /\ nothing
    ELSE LET event == ParseWebhookEvent(parsed.value, headers) IN
    IF event.kind = "throw"
    THEN respond(Response(500, "INTERNAL_ERROR")) /\ nothing
    ELSE LET logId == Len(webhookLogs) + 1
             log == LogRow(repositoryId, IF event.kind = "event" THEN event.type ELSE "unknown",
                           headers, "")
         IN
    IF event.kind = "null"
    THEN /\ webhookLogs' = Append(webhookLogs, log)
         /\ respond([Response(200, "OK") EXCEPT !.eventType = "unsupported"])
         /\ UNCHANGED <<repositories, reviews, task, errorLog>>
    ELSE IF ~ShouldTriggerReview(event)
    THEN /\ webhookLogs' = Append(webhookLogs, [log EXCEPT !.processed = TRUE])
         /\ respond([Response(200, "OK") EXCEPT !.eventType = event.type])
         /\ UNCHANGED <<repositories, reviews, task, errorLog>>
    ELSE LET reviewId == Len(reviews) + 1 IN
         /\ reviews' = Append(reviews, NewReview(repositoryId, event, logId))
         /\ webhookLogs' = Append(webhookLogs,
                [log EXCEPT !.processed = TRUE, !.reviewId = reviewId])
         /\ task' = Append(task, StartTask(repositoryId, repo))
         /\ respond([Response(200, "OK") EXCEPT !.eventType = event.type,
                        !.triggered = TRUE, !.reviewId = reviewId])
         /\ UNCHANGED <<repositories, errorLog>>

(***************************************************************************)
(* executeReviewAsync: one action per awaited call.  Every awaited call    *)
(* either returns or raises; a raise inside the try block continues in the *)
(* catch block with the error captured.                                    *)
(***************************************************************************)
otherVars == <<cr, call, ret>>

\* the diffs the forge may return: empty, whitespace only, a change
Diffs == {<<>>, <<" ">>, <<"x">>}

\* !diff || diff.trim().length === 0
IsBlank(diff) == \A i \in 1..Len(diff) : diff[i] = " "

AtPc(r, pc) == r \in 1..Len(task) /\ task[r].pc = pc

Goto(r, pc) == task' = [task EXCEPT ![r].pc = pc]

\* an awaited call of the try block raises: control passes to the catch block
Raise(r, message) ==
    /\ task' = [task EXCEPT ![r].pc = "catch", ![r].error = message]
    /\ UNCHANGED <<repositories, reviews, webhookLogs, request, response, errorLog, deliveries>>

\* the row written on completion, for the empty diff and for a submitted review
Completed(row, summary) ==
    [row EXCEPT !.status = "completed", !.decision = "COMMENT", !.summary = summary,
                !.commentsCount = 0, !.durationMs = TRUE, !.completedAt = TRUE]

\* the row written by the catch block
Failed(row, message) ==
    [row EXCEPT !.status = "failed", !.error = message, !.durationMs = TRUE,
                !.completedAt = TRUE]

\* await db.update(reviews).set({ status: 'processing' })
SetProcessing(r) ==
    /\ AtPc(r, "setProcessing")
    /\ \/ /\ reviews' = [reviews EXCEPT ![r].status = "processing"]
          /\ Goto(r, "getDiff")
          /\ UNCHANGED <<repositories, webhookLogs, request, response, errorLog, deliveries>>
       \/ Raise(r, "database error")
    /\ UNCHANGED otherVars

\* await provider.getPullRequestDiff(owner, repoName, prNumber)
GetDiff(r) ==
    /\ AtPc(r, "getDiff")
    /\ \/ /\ \E diff \in Diffs :
                task' = [task EXCEPT ![r].pc = "getFiles", ![r].diff = diff,
                                     ![r].calls = Append(@, "getPullRequestDiff")]
          /\ UNCHANGED <<repositories, reviews, webhookLogs, request, response, errorLog, deliveries>>
       \/ /\ task' = [task EXCEPT ![r].pc = "catch", ![r].error = "Failed to get PR diff",
                                  ![r].calls = Append(@, "getPullRequestDiff")]
          /\ UNCHANGED <<repositories, reviews, webhookLogs, request, response, errorLog, deliveries>>
    /\ UNCHANGED otherVars

\* await provider.getPullRequestFiles(owner, repoName, prNumber), then the test of
\* the diff that selects the next awaited call
GetFiles(r) ==
    /\ AtPc(r, "getFiles")
    /\ \/ /\ task' = [task EXCEPT
                        ![r].pc = IF IsBlank(task[r].diff) THEN "completeEmpty" ELSE "createReview",
                        ![r].calls = Append(@, "getPullRequestFiles")]
          /\ UNCHANGED <<repositories, reviews, webhookLogs, request, response, errorLog, deliveries>>
       \/ /\ task' = [task EXCEPT ![r].pc = "catch", ![r].error = "gitea API error",
                                  ![r].calls = Append(@, "getPullRequestFiles")]
          /\ UNCHANGED <<repositories, reviews, webhookLogs, request, response, errorLog, deliveries>>
    /\ UNCHANGED otherVars

\* the empty diff: await db.update(reviews).set({ status: 'completed', ... }); return
CompleteEmpty(r) ==
    /\ AtPc(r, "completeEmpty")
    /\ \/ /\ reviews' = [reviews EXCEPT ![r] = Completed(@, "no changes")]
          /\ Goto(r, "done")
          /\ UNCHANGED <<repositories, webhookLogs, request, response, errorLog, deliveries>>
       \/ Raise(r, "database error")
    /\ UNCHANGED otherVars

\* await provider.createReview(owner, repoName, prNumber, { body, decision, comments: [] }):
\* with no comments, the one aggregate call
SubmitReview(r) ==
    /\ AtPc(r, "createReview")
    /\ \/ /\ task' = [task EXCEPT ![r].pc = "complete",
                                  ![r].calls = Append(@, "createReview")]
          /\ UNCHANGED <<repositories, reviews, webhookLogs, request, response, errorLog, deliveries>>
       \/ /\ task' = [task EXCEPT ![r].pc = "catch", ![r].error = "gitea API error",
                                  ![r].calls = Append(@, "createReview")]
          /\ UNCHANGED <<repositories, reviews, webhookLogs, request, response, errorLog, deliveries>>
    /\ UNCHANGED otherVars

\* await db.update(reviews).set({ status: 'completed', ... })
Complete(r) ==
    /\ AtPc(r, "complete")
    /\ \/ /\ reviews' = [reviews EXCEPT ![r] = Completed(@, "mock")]
          /\ Goto(r, "updateStats")
          /\ UNCHANGED <<repositories, webhookLogs, request, response, errorLog, deliveries>>
       \/ Raise(r, "database error")
    /\ UNCHANGED otherVars

\* await db.update(repositories).set({ reviewCount: repo.reviewCount + 1, ... }),
\* repo being the row the route read before it started the task
UpdateStats(r) ==
    /\ AtPc(r, "updateStats")
    /\ \/ /\ repositories' = [repositories EXCEPT
                ![task[r].repositoryId].reviewCount = task[r].repo.reviewCount + 1]
          /\ Goto(r, "done")
          /\ UNCHANGED <<reviews, webhookLogs, request, response, errorLog, deliveries>>
       \/ Raise(r, "database error")
    /\ UNCHANGED otherVars

\* catch (error): await db.update(reviews).set({ status: 'failed', error, ... }).
\* When this update raises too, the promise of the task rejects and the .catch of
\* the route logs the error.
Catch(r) ==
    /\ AtPc(r, "catch")
    /\ \/ /\ reviews' = [reviews EXCEPT ![r] = Failed(@, task[r].error)]
          /\ Goto(r, "done")
          /\ UNCHANGED <<repositories, webhookLogs, request, response, errorLog, deliveries>>
       \/ /\ Goto(r, "rejected")
          /\ errorLog' = errorLog \cup {r}
          /\ UNCHANGED <<repositories, reviews, webhookLogs, request, response, deliveries>>
    /\ UNCHANGED otherVars

(***************************************************************************)
(* Webhook requests.                                                       *)
(***************************************************************************)
\* the request headers the route reads
Headers(event, delivery, signature) ==
    LET names == (IF event # "" THEN {"x-gitea-event"} ELSE {})
                 \cup (IF delivery # "" THEN {"x-gitea-delivery"} ELSE {})
                 \cup (IF signature # <<>> THEN {"x-gitea-signature"} ELSE {})
    IN  [n \in names |->
            CASE n = "x-gitea-event" -> event
              [] n = "x-gitea-delivery" -> delivery
              [] OTHER -> signature]

\* the bytes of a request body (abbreviated) and the document JSON.parse makes of them
RawBody(doc) ==
    [text |-> IF doc = SyntaxError THEN <<"x">>
              ELSE IF doc = JsonNull THEN <<"n">>
              ELSE <<"{", "}">>,
     doc |-> doc]

Secrets == {<<"k">>, <<"z">>}

\* the signatures a sender may supply for a body: none, the signature under each
\* secret, and the digest without its prefix
SignatureChoices ==
    [text \in {<<"x">>, <<"n">>, <<"{", "}">>} |->
        {<<>>} \cup {Sha256Prefix \o Hmac(text, secret) : secret \in Secrets}
               \cup {Hmac(text, <<"k">>)}]

CommentBodies ==
    {<<>>, <<"o", "k">>, TokenOc, <<"/", "O", "C">>, TokenOc \o <<"x">>,
     <<"x", " ">> \o TokenOc \o <<"!">>, TokenOpencode, TokenOpencode \o <<"_">>,
     <<"/", "o", "p", "e", "n">>}

Payloads ==
    [action : Actions, repository : BOOLEAN, sender : BOOLEAN, pull_request : Presence,
     issue : IssueKinds, comment : Presence, body : CommentBodies]

EventHeaders == {"", "pull_request", "issue_comment", "push"}

Request(repositoryId, doc, event, delivery, signature) ==
    [repositoryId |-> repositoryId, rawBody |-> RawBody(doc),
     headers |-> Headers(event, delivery, signature)]

PullRequestDoc(action) ==
    [action |-> action, repository |-> TRUE, sender |-> TRUE, pull_request |-> "ok",
     issue |-> "absent", comment |-> "absent", body |-> <<>>]

CommentDoc(action, issue, body) ==
    [action |-> action, repository |-> TRUE, sender |-> TRUE, pull_request |-> "absent",
     issue |-> issue, comment |-> "ok", body |-> body]

\* The deliveries of the life-cycle specification: a pull request opened on the
\* repository without secret, a signed trigger comment on the repository with a
\* secret, and a closed pull request.
LifecycleRequests ==
    { Request("r2", PullRequestDoc("opened"), "pull_request", "d1", <<>>),
      Request("r1", CommentDoc("created", "pr", TokenOc), "issue_comment", "d2",
              Sha256Prefix \o Hmac(<<"{", "}">>, <<"k">>)),
      Request("r2", PullRequestDoc("closed"), "pull_request", "d1", <<>>) }

NoCall == [fn |-> "none"]

NoRet == [kind |-> "none"]

Idle == [pc |-> "idle"]

InitServer ==
    /\ repositories = InitRepositories
    /\ reviews = <<>>
    /\ webhookLogs = <<>>
    /\ task = <<>>
    /\ request = NoRequest
    /\ response = NoResponse
    /\ errorLog = {}
    /\ deliveries = 0

Init ==
    /\ InitServer
    /\ cr = Idle
    /\ call = NoCall
    /\ ret = NoRet

\* a webhook delivery arrives and the route handles it
Deliver ==
    /\ deliveries < MaxDeliveries
    /\ \E req \in LifecycleRequests : WebhookPost(req)
    /\ UNCHANGED otherVars

Next ==
    \/ Deliver
    \/ \E r \in 1..Len(task) : SetProcessing(r)
    \/ \E r \in 1..Len(task) : GetDiff(r)
    \/ \E r \in 1..Len(task) : GetFiles(r)
    \/ \E r \in 1..Len(task) : CompleteEmpty(r)
    \/ \E r \in 1..Len(task) : SubmitReview(r)
    \/ \E r \in 1..Len(task) : Complete(r)
    \/ \E r \in 1..Len(task) : UpdateStats(r)
    \/ \E r \in 1..Len(task) : Catch(r)

Spec == Init /\ [][Next]_vars

(***************************************************************************)
(* The webhook route alone: one delivery, drawn from every combination of  *)
(* repository, body, event header and signature.                           *)
(***************************************************************************)
HandlerBodies == {<<"o", "k">>, TokenOc, <<"/", "O", "C">>, TokenOc \o <<"x">>, TokenOpencode}

HandlerDocs ==
    {d \in Payloads : d.sender /\ d.comment # "partial" /\ d.body \in HandlerBodies}
        \cup {JsonNull, SyntaxError}

DeliverAny ==
    /\ deliveries = 0
    /\ \E repositoryId \in RepoIds \cup {"r0"}, doc \in HandlerDocs, event \in EventHeaders :
         \E signature \in SignatureChoices[RawBody(doc).text] :
            WebhookPost(Request(repositoryId, doc, event, "d1", signature))
    /\ UNCHANGED otherVars

NextHandler == DeliverAny

SpecHandler == Init /\ [][NextHandler]_vars

(***************************************************************************)
(* GiteaProvider.parseWebhookEvent on every payload shape and header set.  *)
(***************************************************************************)
ParseHeaders ==
    {Headers(event, delivery, <<>>) : event \in EventHeaders, delivery \in {"", "d1"}}
        \cup {[n \in {"X-Gitea-Event"} |-> "pull_request"]}

InitParse ==
    /\ InitServer
    /\ cr = Idle
    /\ \E payload \in Payloads \cup {JsonNull}, headers \in ParseHeaders :
          call = [fn |-> "parseWebhookEvent", payload |-> payload, headers |-> headers]
    /\ ret = NoRet

CallParseWebhookEvent ==
    /\ call.fn = "parseWebhookEvent"
    /\ ret = NoRet
    /\ ret' = ParseWebhookEvent(call.payload, call.headers)
    /\ UNCHANGED <<serverVars, cr, call>>

NextParse == CallParseWebhookEvent

SpecParse == InitParse /\ [][NextParse]_vars

(***************************************************************************)
(* GiteaProvider.verifyWebhookSignature on payloads, secrets and signature *)
(* texts: each digest, shortened, lengthened and altered in one place,     *)
(* with and without the prefix.                                            *)
(***************************************************************************)
SigPayloads == {<<>>, <<"x">>, <<"{", "}">>}

Digests == {Hmac(payload, secret) : payload \in SigPayloads, secret \in Secrets}

Substitutes == {"0", "f", "A", "U+00E9"}

SigTails ==
    Digests
        \cup {SubSeq(d, 1, Len(d) - 1) : d \in Digests}
        \cup {Tail(d) : d \in Digests}
        \cup {d \o <<"0">> : d \in Digests}
        \cup {SubSeq(d, 1, Len(d) - 2) \o <<"U+00E9">> : d \in Digests}
        \cup {[d EXCEPT ![i] = c] : d \in Digests, i \in 1..DigestLen, c \in Substitutes}

SigPrefixes == {<<>>, Sha256Prefix, <<"s","h","a","2","5","6">>, <<"=">> \o Sha256Prefix}

InitSig ==
    /\ InitServer
    /\ cr = Idle
    /\ \E payload \in SigPayloads, secret \in Secrets, prefix \in SigPrefixes, tail \in SigTails :
          call = [fn |-> "verifyWebhookSignature", payload |-> payload,
                  signature |-> prefix \o tail, secret |-> secret]
    /\ ret = NoRet

CallVerifyWebhookSignature ==
    /\ call.fn = "verifyWebhookSignature"
    /\ ret = NoRet
    /\ ret' = [kind |-> "value",
               value |-> VerifyWebhookSignature(call.payload, call.signature, call.secret)]
    /\ UNCHANGED <<serverVars, cr, call>>

NextSig == CallVerifyWebhookSignature

SpecSig == InitSig /\ [][NextSig]_vars

(***************************************************************************)
(* GiteaProvider.createReview: the line comments one by one, then the      *)
(* aggregate review.  Every forge call is issued, then returns or fails.   *)
(***************************************************************************)
Decisions == {"APPROVED", "REQUEST_CHANGES", "COMMENT"}

\* GiteaProvider.mapDecisionToEvent
MapDecisionToEvent(decision) ==
    CASE decision = "APPROVED" -> "APPROVE"
      [] decision = "REQUEST_CHANGES" -> "REQUEST_CHANGES"
      [] OTHER -> "COMMENT"

\* the LineCommentRequest values of the model
LineComments ==
    { [path |-> "a.ts", line |-> 3, body |-> "b1", side |-> "RIGHT"],
      [path |-> "a.ts", line |-> 5, body |-> "b2", side |-> "LEFT"],
      [path |-> "b.ts", line |-> 1, body |-> "b3", side |-> "none"] }

RECURSIVE SeqsUpTo(_, _)
\* the sequences over S of length at most n
SeqsUpTo(S, n) ==
    IF n = 0 THEN {<<>>}
    ELSE LET shorter == SeqsUpTo(S, n - 1)
         IN  shorter \cup {Append(q, x) : q \in shorter, x \in S}

\* the body GiteaProvider.createLineComment posts to /pulls/{n}/reviews
LineCommentBody(comment) ==
    [body |-> comment.body, path |-> comment.path, new_position |-> comment.line]

\* the body createReview posts to /pulls/{n}/reviews for the review itself
ReviewBody(review) ==
    [body |-> review.body, event |-> MapDecisionToEvent(review.decision)]

\* The value BaseProvider.fetch throws for a response that is not ok: an Error
\* whose only own field is the message built from the provider name, the status
\* and the response text.
FetchError == [message |-> "gitea API error: 500 Internal Server Error"]

\* The mutant: a failed line comment is swallowed and the loop goes on.
AfterCommentFailureContinue(c) ==
    [c EXCEPT !.pc = "loop", !.i = @ + 1,
              !.calls[Len(c.calls)].state = "failed"]

\* BaseProvider.fetch throws on a response that is not ok; the await in the loop
\* lets the error leave createReview.
AfterCommentFailure(c) ==
    [c EXCEPT !.pc = "rejected", !.error = FetchError,
              !.calls[Len(c.calls)].state = "failed"]

InitCR ==
    /\ InitServer
    /\ call = NoCall
    /\ ret = NoRet
    /\ \E comments \in SeqsUpTo(LineComments, MaxComments), decision \in Decisions \cup {"OTHER"} :
          cr = [pc |-> "loop", i |-> 1, calls |-> <<>>, error |-> Null,
                review |-> [body |-> "summary", decision |-> decision, comments |-> comments]]

\* for (const comment of review.comments): this.createLineComment(...) is called
IssueLineComment ==
    /\ cr.pc = "loop"
    /\ cr.i <= Len(cr.review.comments)
    /\ cr' = [cr EXCEPT !.pc = "awaitComment",
                        !.calls = Append(@, [kind |-> "lineComment", index |-> cr.i,
                                             payload |-> LineCommentBody(cr.review.comments[cr.i]),
                                             state |-> "inflight"])]
    /\ UNCHANGED <<serverVars, call, ret>>

\* await this.createLineComment(...) returns
LineCommentReturns ==
    /\ cr.pc = "awaitComment"
    /\ cr' = [cr EXCEPT !.pc = "loop", !.i = @ + 1, !.calls[Len(cr.calls)].state = "ok"]
    /\ UNCHANGED <<serverVars, call, ret>>

\* await this.createLineComment(...) raises
LineCommentFails ==
    /\ cr.pc = "awaitComment"
    /\ cr' = AfterCommentFailure(cr)
    /\ UNCHANGED <<serverVars, call, ret>>

\* after the loop: this.fetch(`.../reviews`, { body, event }) is called
IssueReview ==
    /\ cr.pc = "loop"
    /\ cr.i > Len(cr.review.comments)
    /\ cr' = [cr EXCEPT !.pc = "awaitReview",
                        !.calls = Append(@, [kind |-> "review", index |-> 0,
                                             payload |-> ReviewBody(cr.review),
                                             state |-> "inflight"])]
    /\ UNCHANGED <<serverVars, call, ret>>

\* the aggregate call returns: createReview returns the mapped review
ReviewReturns ==
    /\ cr.pc = "awaitReview"
    /\ cr' = [cr EXCEPT !.pc = "fulfilled", !.calls[Len(cr.calls)].state = "ok"]
    /\ UNCHANGED <<serverVars, call, ret>>

\* the aggregate call raises: createReview rejects with the error of fetch
ReviewFails ==
    /\ cr.pc = "awaitReview"
    /\ cr' = [cr EXCEPT !.pc = "rejected", !.error = FetchError,
                        !.calls[Len(cr.calls)].state = "failed"]
    /\ UNCHANGED <<serverVars, call, ret>>

NextCR ==
    \/ IssueLineComment
    \/ LineCommentReturns
    \/ LineCommentFails
    \/ IssueReview
    \/ ReviewReturns
    \/ ReviewFails

SpecCR == InitCR /\ [][NextCR]_vars

(***************************************************************************)
(* The background task under fair scheduling: a task whose next awaited    *)
(* call is pending is eventually resumed (the call returns or raises).     *)
(***************************************************************************)
TaskStep(r) ==
    \/ SetProcessing(r)
    \/ GetDiff(r)
    \/ GetFiles(r)
    \/ CompleteEmpty(r)
    \/ SubmitReview(r)
    \/ Complete(r)
    \/ UpdateStats(r)
    \/ Catch(r)

FairSpec == Spec /\ \A r \in 1..MaxDeliveries : WF_vars(TaskStep(r))

(***************************************************************************)
(* Properties of the review life cycle (Spec, FairSpec).                   *)
(***************************************************************************)
StatusEdges ==
    {<<"pending", "processing">>, <<"processing", "completed">>, <<"processing", "failed">>}

\* C1: the status of a review record only moves pending -> processing -> completed
\* or pending -> processing -> failed: it is inserted as pending, set to processing
\* before any forge call, and a completed record never changes status again.
C1_StatusOnlyAlongLifecycle ==
    [][\A r \in 1..Len(reviews') :
          /\ IF r > Len(reviews) THEN reviews'[r].status = "pending"
             ELSE \/ reviews'[r].status = reviews[r].status
                  \/ <<reviews[r].status, reviews'[r].status>> \in StatusEdges
          /\ task'[r].calls # <<>> => reviews'[r].status # "pending"]_vars

\* C2: the route answers a triggering webhook (triggered: true, reviewId) in the step
\* that inserts the pending record, before the background task has run at all, and
\* no later step of a task changes the response.
C2_RespondsWithoutWaiting ==
    [][/\ (deliveries' # deliveries /\ response'.triggered) =>
            LET r == response'.reviewId IN
            /\ r = Len(reviews') /\ r = Len(reviews) + 1
            /\ reviews'[r].status = "pending"
            /\ task'[r].pc = "setProcessing" /\ task'[r].calls = <<>>
            /\ response'.status = 200
       /\ deliveries' = deliveries => response' = response]_vars

\* the response of a triggering webhook exists while its review is still processing
C2_Witness ==
    /\ response.triggered
    /\ reviews[response.reviewId].status = "processing"
    /\ task[response.reviewId].calls # <<>>

\* C3: a task in which an error was raised ends with its record failed, carrying the
\* message of that error.
C3_ErrorsEndInFailed ==
    \A r \in 1..Len(task) :
        (task[r].pc \in {"done", "rejected"} /\ task[r].error # "") =>
            /\ reviews[r].status = "failed"
            /\ reviews[r].error = task[r].error

\* C4: every review record eventually reaches completed or failed.
C4_EventuallySettled ==
    \A r \in 1..MaxDeliveries :
        (Len(reviews) >= r)
            ~> (Len(reviews) >= r /\ reviews[r].status \in {"completed", "failed"})

(***************************************************************************)
(* Properties of the webhook route (SpecHandler).                          *)
(***************************************************************************)
Handled == request # NoRequest

RepoKnownEnabled ==
    /\ request.repositoryId \in DOMAIN repositories
    /\ repositories[request.repositoryId].enabled

SecretOf(repositoryId) == repositories[repositoryId].webhookSecret

\* the supplied signature is 'sha256=' followed by the digest of the body
SignatureVerifies ==
    SignatureOf(request.headers)
        = Sha256Prefix \o Hmac(request.rawBody.text, SecretOf(request.repositoryId))

BodyIsJson == request.rawBody.doc # SyntaxError

\* C5: with a webhook secret configured, a delivery whose signature does not verify
\* is answered 401 UNAUTHORIZED, logged as signature_invalid and unprocessed, and
\* creates no review record and no task.
C5_InvalidSignatureRejected ==
    (Handled /\ RepoKnownEnabled /\ SecretOf(request.repositoryId) # NoSecret
        /\ ~SignatureVerifies) =>
        /\ response.status = 401 /\ response.code = "UNAUTHORIZED"
        /\ Len(webhookLogs) = 1
        /\ webhookLogs[1].eventType = "signature_invalid"
        /\ ~webhookLogs[1].processed
        /\ reviews = <<>> /\ task = <<>>

\* C6 as stated: a body that is not JSON gets 400 VALIDATION_ERROR and creates no log
\* and no review record, whatever the secret and the signature.
C6_InvalidJsonAlways400 ==
    (Handled /\ RepoKnownEnabled /\ ~BodyIsJson) =>
        /\ response.status = 400 /\ response.code = "VALIDATION_ERROR"
        /\ webhookLogs = <<>> /\ reviews = <<>> /\ task = <<>>

\* C6 as amended: a body that is not JSON never creates a review record or a task;
\* when no secret is configured or the signature verifies it is rejected with 400
\* VALIDATION_ERROR and creates no log; with a secret and a signature that does not
\* verify the request is rejected before the parse, never with VALIDATION_ERROR.
C6_InvalidJsonRejected ==
    (Handled /\ RepoKnownEnabled /\ ~BodyIsJson) =>
        /\ reviews = <<>> /\ task = <<>>
        /\ response.status >= 400
        /\ IF SecretOf(request.repositoryId) = NoSecret \/ SignatureVerifies
           THEN /\ response.status = 400 /\ response.code = "VALIDATION_ERROR"
                /\ webhookLogs = <<>>
           ELSE response.code # "VALIDATION_ERROR"

\* a correctly signed body that is not JSON was answered 400
C6_Witness ==
    /\ Handled /\ RepoKnownEnabled /\ ~BodyIsJson
    /\ SecretOf(request.repositoryId) # NoSecret /\ SignatureVerifies
    /\ response.code = "VALIDATION_ERROR"

\* the text contains the token, letters in either case
Contains(body, token) ==
    \E i \in 1..Len(body) :
        /\ i + Len(token) - 1 <= Len(body)
        /\ \A k \in 1..Len(token) : Lower(body[i + k - 1]) = token[k]

\* the delivery is a pull request opened or synchronized, or a comment created on a
\* pull request whose body contains /oc or /opencode
IsTriggering(req) ==
    LET doc == req.rawBody.doc
        event == HeaderGet(req.headers, "x-gitea-event")
    IN  /\ doc # SyntaxError /\ doc # JsonNull
        /\ \/ event = "pull_request" /\ doc.action \in {"opened", "synchronized"}
           \/ /\ event = "issue_comment"
              /\ doc.issue = "pr"
              /\ doc.action = "created"
              /\ Contains(doc.body, TokenOc) \/ Contains(doc.body, TokenOpencode)

\* C7: a review record is created and a task started only for a pull request
\* opened or synchronized, or for a comment created on a pull request whose body
\* contains a trigger token.
C7_OnlyTriggeringEventsCreateReviews ==
    (reviews # <<>> \/ task # <<>>) => (Handled /\ IsTriggering(request))

\* a created comment holding the token on a pull request has started a review
C7_Witness ==
    /\ Len(reviews) = 1 /\ Len(task) = 1
    /\ reviews[1].triggeredBy = "comment"
    /\ HeaderGet(request.headers, "x-gitea-event") = "issue_comment"

(***************************************************************************)
(* Properties of parseWebhookEvent (SpecParse).                            *)
(***************************************************************************)
\* C8: parseWebhookEvent never raises, and returns null without an event header,
\* for other event types, for a comment on an issue that is no pull request and
\* for pull request actions other than opened, synchronized and closed.
C8_ParseNeverRaises ==
    ret # NoRet =>
        LET event == Or(HeaderGet(call.headers, "x-gitea-event"),
                        HeaderGet(call.headers, "X-Gitea-Event"))
            data == call.payload
        IN  /\ ret.kind \in {"event", "null"}
            /\ event \notin {"pull_request", "issue_comment"} => ret = Null
            /\ (data # JsonNull /\ event = "issue_comment" /\ data.issue # "pr") => ret = Null
            /\ (data # JsonNull /\ event = "pull_request"
                    /\ data.action \notin {"opened", "synchronized", "closed"}) => ret = Null

(***************************************************************************)
(* Properties of verifyWebhookSignature (SpecSig).                         *)
(***************************************************************************)
\* C9: verifyWebhookSignature returns true exactly when the signature is 'sha256='
\* followed by the hex digest of the payload under the secret, and raises nothing.
C9_SignatureExact ==
    ret # NoRet =>
        /\ ret.kind = "value"
        /\ ret.value <=> (call.signature = Sha256Prefix \o Hmac(call.payload, call.secret))

\* a signature was accepted
C9_Witness == ret # NoRet /\ ret.kind = "value" /\ ret.value

(***************************************************************************)
(* Properties of createReview (SpecCR).                                    *)
(***************************************************************************)
\* C10: the calls of createReview are the line comments in list order, each one
\* finished before the next is issued, then the aggregate review once, with the
\* body and the mapped decision; a failed call is the last call; createReview
\* returns only after all of them succeeded.
C10_CommentsThenReview ==
    cr.pc # "idle" =>
        LET comments == cr.review.comments
            n == Len(comments)
            calls == cr.calls
        IN  /\ Len(calls) <= n + 1
            /\ \A k \in 1..Len(calls) :
                  /\ k <= n =>
                        /\ calls[k].kind = "lineComment"
                        /\ calls[k].payload.body = comments[k].body
                        /\ calls[k].payload.path = comments[k].path
                  /\ k = n + 1 =>
                        /\ calls[k].kind = "review"
                        /\ calls[k].payload.body = cr.review.body
                        /\ calls[k].payload.event =
                              (IF cr.review.decision = "APPROVED" THEN "APPROVE"
                               ELSE IF cr.review.decision = "REQUEST_CHANGES"
                               THEN "REQUEST_CHANGES" ELSE "COMMENT")
                  /\ k < Len(calls) => calls[k].state = "ok"
            /\ cr.pc = "fulfilled" =>
                  /\ Len(calls) = n + 1
                  /\ \A k \in 1..Len(calls) : calls[k].state = "ok"
            /\ cr.pc = "rejected" => calls[Len(calls)].state = "failed"

\* two line comments were submitted and then the review
C10_Witness ==
    /\ cr.pc = "fulfilled"
    /\ Len(cr.review.comments) = 2
    /\ Len(cr.calls) = 3

\* the number of line comments createReview has submitted successfully
SubmittedComments ==
    Cardinality({k \in 1..Len(cr.calls) :
                    cr.calls[k].kind = "lineComment" /\ cr.calls[k].state = "ok"})

\* C11: when createReview fails after k line comments were submitted, it ends
\* by raising (never by returning) and the error it raises has a field, besides
\* its message, that holds k.
C11_FailureCarriesCount ==
    (cr.pc # "idle" /\ \E k \in 1..Len(cr.calls) : cr.calls[k].state = "failed") =>
        /\ cr.pc = "rejected"
        /\ \E f \in DOMAIN cr.error \ {"message"} : cr.error[f] = SubmittedComments

\* C12: every line comment createReview submits carries both position fields,
\* exactly one of them non-zero: an old-side comment (side LEFT) has
\* old_position = line and new_position = 0, any other one new_position = line
\* and old_position = 0.
C12_ExactlyOnePosition ==
    cr.pc # "idle" =>
        \A k \in 1..Len(cr.calls) :
            cr.calls[k].kind = "lineComment" =>
                LET sent == cr.calls[k].payload
                    comment == cr.review.comments[cr.calls[k].index]
                IN  /\ {"new_position", "old_position"} \subseteq DOMAIN sent
                    /\ IF comment.side = "LEFT"
                       THEN sent.old_position = comment.line /\ sent.new_position = 0
                       ELSE sent.new_position = comment.line /\ sent.old_position = 0

(***************************************************************************)
(* Properties of the empty-diff shortcut (Spec).                           *)
(***************************************************************************)
\* the task of review r fetched a diff that is empty or only whitespace and went on
FetchedBlankDiff(r) ==
    /\ Len(task[r].calls) >= 2
    /\ task[r].calls[1] = "getPullRequestDiff"
    /\ IsBlank(task[r].diff)

\* C13: a review attempt whose fetched diff is empty or only whitespace ends with
\* its record completed, decision COMMENT, commentsCount 0 and the 'no changes'
\* summary, and nothing was submitted to the forge.
C13_EmptyDiffCompletes ==
    \A r \in 1..Len(task) :
        (task[r].pc \in {"done", "rejected"} /\ FetchedBlankDiff(r)) =>
            /\ reviews[r].status = "completed"
            /\ reviews[r].decision = "COMMENT"
            /\ reviews[r].commentsCount = 0
            /\ reviews[r].summary = "no changes"
            /\ \A k \in 1..Len(task[r].calls) : task[r].calls[k] # "createReview"

(***************************************************************************)
(* POST /reviews/:id/retry next to the webhook route and the review tasks. *)
(* deliveries counts the requests the server has handled, webhook and      *)
(* retry alike; call holds the retry request (its ordinal n, the id and    *)
(* the authenticated user) and ret its response.                           *)
(***************************************************************************)
RetryResponse(status, code) == [kind |-> "response", status |-> status, code |-> code]

\* The mutant: the reset leaves the error message of the failed attempt in place.
ResetForRetryKeepingError(row) ==
    [row EXCEPT !.status = "pending", !.summary = "", !.decision = "",
                !.commentsCount = 0, !.durationMs = FALSE, !.completedAt = FALSE]

\* db.update(reviews).set({ status: 'pending', error: null, summary: null, ... })
ResetForRetry(row) ==
    [row EXCEPT !.status = "pending", !.error = "", !.summary = "", !.decision = "",
                !.commentsCount = 0, !.durationMs = FALSE, !.completedAt = FALSE]

\* reviewRoutes.post('/:id/retry'), the whole handler
RetryReview(id, user) ==
    /\ call' = [fn |-> "retry", n |-> deliveries + 1, id |-> id, user |-> user]
    /\ deliveries' = deliveries + 1
    /\ IF id \notin 1..Len(reviews)
       THEN /\ ret' = RetryResponse(404, "NOT_FOUND")
            /\ reviews' = reviews
       ELSE IF repositories[reviews[id].repositoryId].userId # user
       THEN /\ ret' = RetryResponse(403, "FORBIDDEN")
            /\ reviews' = reviews
       ELSE IF reviews[id].status # "failed"
       THEN /\ ret' = RetryResponse(400, "VALIDATION_ERROR")
            /\ reviews' = reviews
       ELSE /\ reviews' = [reviews EXCEPT ![id] = ResetForRetry(@)]
            /\ ret' = RetryResponse(200, "none")
    /\ UNCHANGED <<repositories, webhookLogs, task, request, response, errorLog, cr>>

\* an operator asks for a retry
Retry ==
    /\ deliveries < MaxDeliveries
    /\ \E id \in 1..(Len(reviews) + 1), user \in Users : RetryReview(id, user)

NextRetry ==
    \/ Next
    \/ Retry

SpecRetry == Init /\ [][NextRetry]_vars

\* C14: a retry request changes a review record only when the record is failed
\* (and the caller owns its repository): the record then becomes pending with
\* error, summary, decision, durationMs and completedAt cleared and
\* commentsCount 0; for a record of the caller that is pending, processing or
\* completed the answer is VALIDATION_ERROR and nothing changes.  No other step
\* moves a record out of failed.
C14_RetryOnlyResetsFailed ==
    [][IF call' # call
       THEN LET id == call'.id
                known == id \in 1..Len(reviews)
                owner == known /\ repositories[reviews[id].repositoryId].userId = call'.user
            IN  IF owner /\ reviews[id].status = "failed"
                THEN /\ Len(reviews') = Len(reviews)
                     /\ \A r \in 1..Len(reviews) : r # id => reviews'[r] = reviews[r]
                     /\ reviews'[id].status = "pending"
                     /\ reviews'[id].error = ""
                     /\ reviews'[id].summary = ""
                     /\ reviews'[id].decision = ""
                     /\ reviews'[id].durationMs = FALSE
                     /\ reviews'[id].completedAt = FALSE
                     /\ reviews'[id].commentsCount = 0
                     /\ reviews'[id].repositoryId = reviews[id].repositoryId
                ELSE /\ reviews' = reviews
                     /\ owner => ret'.code = "VALIDATION_ERROR"
       ELSE \A r \in 1..Len(reviews) :
                reviews[r].status = "failed" => reviews'[r].status = "failed"]_vars

\* a failed record was reset by its owner's retry request
C14_Witness ==
    /\ call.fn = "retry"
    /\ ret.status = 200
    /\ call.id \in 1..Len(reviews)
    /\ reviews[call.id].status = "pending"
    /\ reviews[call.id].error = ""
    /\ task[call.id].error # ""

\* a retry request for a record that is not failed was refused
C14_WitnessRefused ==
    /\ call.fn = "retry"
    /\ ret.code = "VALIDATION_ERROR"
    /\ reviews[call.id].status = "completed"

(***************************************************************************)
(* ReviewEngine: the answer of the Reviewer as text, and what the engine   *)
(* reads out of it.  A text is a sequence of characters; "U+51B3" and the  *)
(* like stand for one character each ("U+0060" is the backquote).         *)
(***************************************************************************)
UpperAZ ==
    <<"A", "B", "C", "D", "E", "F", "G", "H", "I", "J", "K", "L", "M",
      "N", "O", "P", "Q", "R", "S", "T", "U", "V", "W", "X", "Y", "Z">>

LowerAZ ==
    <<"a", "b", "c", "d", "e", "f", "g", "h", "i", "j", "k", "l", "m",
      "n", "o", "p", "q", "r", "s", "t", "u", "v", "w", "x", "y", "z">>

LowerMap ==
    [c \in {UpperAZ[i] : i \in 1..Len(UpperAZ)} |->
        LowerAZ[CHOOSE i \in 1..Len(UpperAZ) : UpperAZ[i] = c]]

\* String.prototype.toLowerCase
ToLowerCase(text) ==
    [i \in 1..Len(text) |->
        IF text[i] \in DOMAIN LowerMap THEN LowerMap[text[i]] ELSE text[i]]

\* \s of a regular expression
IsSpace(c) == c \in {" ", "\n", "\t"}

\* \d of a regular expression
IsDigit(c) == c \in {"0", "1", "2", "3", "4", "5", "6", "7", "8", "9"}

Min(S) == CHOOSE x \in S : \A y \in S : x <= y

Max(S) == CHOOSE x \in S : \A y \in S : x >= y

\* needle is in text at index i
OccursAt(text, i, needle) ==
    /\ i >= 1
    /\ i + Len(needle) - 1 <= Len(text)
    /\ \A k \in 1..Len(needle) : text[i + k - 1] = needle[k]

\* String.prototype.indexOf from a start index; indices start at 1, 0 is "not found"
IndexOf(text, needle, from) ==
    LET found == {i \in from..Len(text) : OccursAt(text, i, needle)}
    IN  IF found = {} THEN 0 ELSE Min(found)

\* String.prototype.includes
Includes(text, needle) == IndexOf(text, needle, 1) # 0

\* \s* from index i on: the index of the first character it does not take
SkipSpaces(text, i) ==
    Min({j \in i..(Len(text) + 1) : j > Len(text) \/ ~IsSpace(text[j])})

\* String.prototype.trim
Trim(text) ==
    LET inked == {i \in 1..Len(text) : ~IsSpace(text[i])}
    IN  IF inked = {} THEN <<>> ELSE SubSeq(text, Min(inked), Max(inked))

\* the text without its trailing white space
TrimEnd(text) ==
    LET inked == {i \in 1..Len(text) : ~IsSpace(text[i])}
    IN  IF inked = {} THEN <<>> ELSE SubSeq(text, 1, Max(inked))

RECURSIVE ParseInt(_)
\* parseInt(digits, 10) of a text of digits
ParseInt(digits) ==
    IF digits = <<>> THEN 0
    ELSE 10 * ParseInt(SubSeq(digits, 1, Len(digits) - 1))
            + (CHOOSE d \in 0..9 : HexDigits[d + 1] = digits[Len(digits)])

FenceOpen == <<"U+0060", "U+0060", "U+0060", "j", "s", "o", "n">>

FenceClose == <<"U+0060", "U+0060", "U+0060">>

\* response.match(/```json\s*([\s\S]*?)\s*```/): whether it matches, and group 1
JsonMatch(reply) ==
    LET open == IndexOf(reply, FenceOpen, 1)
        start == SkipSpaces(reply, open + Len(FenceOpen))
        close == IndexOf(reply, FenceClose, start)
    IN  IF open = 0 \/ close = 0 THEN [matched |-> FALSE, group |-> <<>>]
        ELSE [matched |-> TRUE, group |-> TrimEnd(SubSeq(reply, start, close - 1))]

\* The JSON documents of the model, as text.
DocApproved ==
    <<"{", "\"", "d", "e", "c", "i", "s", "i", "o", "n", "\"", ":", "\"",
      "A", "P", "P", "R", "O", "V", "E", "D", "\"", ",", "\"", "s", "u",
      "m", "m", "a", "r", "y", "\"", ":", "\"", "o", "k", "\"", ",",
      "\"", "c", "o", "m", "m", "e", "n", "t", "s", "\"", ":", "[", "{",
      "\"", "p", "a", "t", "h", "\"", ":", "\"", "a", ".", "t", "s",
      "\"", ",", "\"", "l", "i", "n", "e", "\"", ":", "3", ",", "\"",
      "b", "o", "d", "y", "\"", ":", "\"", "b", "1", "\"", "}", ",", "{",
      "\"", "p", "a", "t", "h", "\"", ":", "\"", "z", ".", "t", "s",
      "\"", ",", "\"", "l", "i", "n", "e", "\"", ":", "1", ",", "\"",
      "b", "o", "d", "y", "\"", ":", "\"", "b", "2", "\"", "}", "]", "}">>

DocRequestChanges == <<"{", "\"", "d", "e", "c", "i", "s", "i", "o", "n", "\"", ":", "\"",
      "R", "E", "Q", "U", "E", "S", "T", "_", "C", "H", "A", "N", "G",
      "E", "S", "\"", ",", "\"", "s", "u", "m", "m", "a", "r", "y", "\"",
      ":", "\"", "n", "o", "\"", "}">>

DocEmpty == <<"{", "}">>

DocNull == <<"n", "u", "l", "l">>

DocCommentsText == <<"{", "\"", "d", "e", "c", "i", "s", "i", "o", "n", "\"", ":", "\"",
      "A", "P", "P", "R", "O", "V", "E", "D", "\"", ",", "\"", "c", "o",
      "m", "m", "e", "n", "t", "s", "\"", ":", "\"", "n", "o", "n", "e",
      "\"", "}">>

DocBroken == <<"{", "d", "e", "c", "i", "s", "i", "o", "n", ":", " ", "A", "P", "P",
      "R", "O", "V", "E", "D", "}">>

DocCut == <<"{", "\"", "d", "e", "c", "i", "s", "i", "o", "n", "\"", ":">>

\* a value JSON.parse returns: an object with the fields the engine reads ("" and
\* <<>> for a field that is not there), or null
JsonObject(decision, summary, comments) ==
    [type |-> "object", decision |-> decision, summary |-> summary, comments |-> comments]

JsonArray(items) == [type |-> "array", items |-> items]

JsonComment(path, line, body) == [path |-> path, line |-> line, body |-> body, side |-> ""]

\* JSON.parse on the texts of the model: the documents above parse, any other text
\* is a SyntaxError
JsonParseText(text) ==
    CASE text = DocApproved ->
            JsonObject("APPROVED", <<"o", "k">>,
                       JsonArray(<<JsonComment(<<"a", ".", "t", "s">>, 3, <<"b", "1">>),
                                   JsonComment(<<"z", ".", "t", "s">>, 1, <<"b", "2">>)>>))
      [] text = DocRequestChanges ->
            JsonObject("REQUEST_CHANGES", <<"n", "o">>, [type |-> "undefined"])
      [] text = DocEmpty -> JsonObject("", <<>>, [type |-> "undefined"])
      [] text = DocCommentsText -> JsonObject("APPROVED", <<>>, [type |-> "string"])
      [] text = DocNull -> [type |-> "null"]
      [] OTHER -> [type |-> "SyntaxError"]

\* 'U+4EE3U+7801U+5BA1U+67E5U+5B8CU+6210U+3002'
DefaultSummary == <<"U+4EE3", "U+7801", "U+5BA1", "U+67E5", "U+5B8C", "U+6210", "U+3002">>

\* 'U+51B3U+7B56'
DecisionLabel == <<"U+51B3", "U+7B56">>

\* 'U+603BU+7ED3'
SummaryLabel == <<"U+603B", "U+7ED3">>

\* (APPROVED|REQUEST_CHANGES|COMMENT) under the i flag, in lower case
DecisionWords == <<<<"a", "p", "p", "r", "o", "v", "e", "d">>, <<"r", "e", "q", "u", "e", "s", "t", "_", "c", "h", "a", "n", "g", "e",
      "s">>, <<"c", "o", "m", "m", "e", "n", "t">>>>

\* /\*{0,2}U+51B3U+7B56\*{0,2}[U+FF1A:]\s*(APPROVED|REQUEST_CHANGES|COMMENT)/i with its label at
\* index i: the number of the word in group 1, 0 when it does not match there
DecisionAt(text, i) ==
    LET stars == Min({k \in 0..3 : i + 2 + k > Len(text) \/ text[i + 2 + k] # "*" \/ k = 3})
        colon == i + 2 + stars
        word == SkipSpaces(text, colon + 1)
        words == {n \in 1..Len(DecisionWords) :
                      OccursAt(ToLowerCase(text), word, DecisionWords[n])}
    IN  IF /\ OccursAt(text, i, DecisionLabel)
           /\ stars <= 2
           /\ colon <= Len(text)
           /\ text[colon] \in {":", "U+FF1A"}
           /\ words # {}
        THEN Min(words)
        ELSE 0

\* response.match of the decision pattern: group 1 in upper case, "" for no match
DecisionMatch(reply) ==
    LET at == {i \in 1..Len(reply) : DecisionAt(reply, i) # 0}
    IN  IF at = {} THEN ""
        ELSE <<"APPROVED", "REQUEST_CHANGES", "COMMENT">>[DecisionAt(reply, Min(at))]

\* (?=\n#{1,3}|$) at index p
SummaryEndsAt(text, p) ==
    \/ p > Len(text)
    \/ text[p] = "\n" /\ p + 1 <= Len(text) /\ text[p + 1] = "#"

\* /#{1,3}\s*U+603BU+7ED3\s*\n([\s\S]*?)(?=\n#{1,3}|$)/ with its label at index j: the
\* index where group 1 starts, 0 when it does not match there
SummaryAt(text, j) ==
    LET after == SkipSpaces(text, j + Len(SummaryLabel))
        newlines == {k \in (j + Len(SummaryLabel))..(after - 1) : text[k] = "\n"}
    IN  IF /\ OccursAt(text, j, SummaryLabel)
           /\ \E h \in 1..(j - 1) :
                 text[h] = "#" /\ \A k \in (h + 1)..(j - 1) : IsSpace(text[k])
           /\ newlines # {}
        THEN Max(newlines) + 1
        ELSE 0

\* response.substring(0, 500)
SummaryLimit == 500

\* the summary parseMarkdownResponse extracts
MarkdownSummary(reply) ==
    LET at == {j \in 1..Len(reply) : SummaryAt(reply, j) # 0}
        start == SummaryAt(reply, Min(at))
        end == Min({p \in start..(Len(reply) + 1) : SummaryEndsAt(reply, p)})
        summary == IF at = {}
                   THEN SubSeq(reply, 1, IF Len(reply) < SummaryLimit
                                            THEN Len(reply) ELSE SummaryLimit)
                   ELSE Trim(SubSeq(reply, start, end - 1))
    IN  IF summary # <<>> THEN summary ELSE DefaultSummary

\* (?=\n[-*]|\n\n|$) at index p
CommentEndsAt(text, p) ==
    \/ p > Len(text)
    \/ text[p] = "\n" /\ p + 1 <= Len(text) /\ text[p + 1] \in {"-", "*", "\n"}

\* The comment pattern from group 1 on, group 1 starting at index b:
\* ([^`\n:]+):(\d+)`?\s*[-U+2013:]\s*(.+?)(?=\n[-*]|\n\n|$)
CommentFrom(text, b) ==
    LET pathEnd == Min({j \in b..(Len(text) + 1) :
                            j > Len(text) \/ text[j] \in {":", "U+0060", "\n"}})
        digitsEnd == Min({j \in (pathEnd + 1)..(Len(text) + 1) :
                              j > Len(text) \/ ~IsDigit(text[j])})
        afterTick == IF digitsEnd <= Len(text) /\ text[digitsEnd] = "U+0060"
                     THEN digitsEnd + 1 ELSE digitsEnd
        separator == SkipSpaces(text, afterTick)
        bodyStart == separator + 1
        ends == {g \in bodyStart..Len(text) :
                    /\ \A k \in bodyStart..g : text[k] # "\n"
                    /\ CommentEndsAt(text, g + 1)}
    IN  IF /\ pathEnd > b
           /\ pathEnd <= Len(text)
           /\ text[pathEnd] = ":"
           /\ digitsEnd > pathEnd + 1
           /\ separator <= Len(text)
           /\ text[separator] \in {"-", "U+2013", ":"}
           /\ ends # {}
        THEN [matched |-> TRUE,
              path |-> Trim(SubSeq(text, b, pathEnd - 1)),
              line |-> ParseInt(SubSeq(text, pathEnd + 1, digitsEnd - 1)),
              body |-> Trim(SubSeq(text, bodyStart, Min(ends))),
              last |-> Min(ends)]
        ELSE [matched |-> FALSE]

\* The comment pattern at index i: [-*]\s*`? and then group 1.  \s* takes as much
\* white space as it can and gives it back one by one when the rest fails.
CommentAt(text, i) ==
    LET spacesEnd == SkipSpaces(text, i + 1)
        Group1(w) == IF w = spacesEnd /\ w <= Len(text) /\ text[w] = "U+0060" THEN w + 1 ELSE w
        good == {w \in (i + 1)..spacesEnd : CommentFrom(text, Group1(w)).matched}
    IN  IF text[i] \in {"-", "*"} /\ good # {}
        THEN CommentFrom(text, Group1(Max(good)))
        ELSE [matched |-> FALSE]

RECURSIVE MarkdownComments(_, _)
\* while ((match = commentPattern.exec(response)) !== null) comments.push(...),
\* the search going on from index `from`
MarkdownComments(reply, from) ==
    LET at == {i \in from..Len(reply) : CommentAt(reply, i).matched}
        match == CommentAt(reply, Min(at))
    IN  IF at = {} THEN <<>>
        ELSE <<[path |-> match.path, line |-> match.line, body |-> match.body,
                side |-> "RIGHT"]>>
             \o MarkdownComments(reply, match.last + 1)

\* ReviewEngine.parseMarkdownResponse
ParseMarkdownResponse(reply) ==
    LET lower == ToLowerCase(reply)
        decisionMatch == DecisionMatch(reply)
    IN  [decision |->
            IF decisionMatch # ""
            THEN (IF decisionMatch = "APPROVED" THEN "APPROVED"
                  ELSE IF decisionMatch = "REQUEST_CHANGES" THEN "REQUEST_CHANGES"
                  ELSE "COMMENT")
            ELSE IF Includes(lower, <<"a", "p", "p", "r", "o", "v", "e", "d">>) THEN "APPROVED"
            ELSE IF Includes(lower, <<"r", "e", "q", "u", "e", "s", "t", "_", "c", "h", "a", "n", "g", "e",
      "s">>)
                    \/ Includes(lower, <<"r", "e", "q", "u", "e", "s", "t", " ", "c", "h", "a", "n", "g", "e",
      "s">>) THEN "REQUEST_CHANGES"
            ELSE "COMMENT",
         summary |-> MarkdownSummary(reply),
         comments |-> MarkdownComments(reply, 1)]

\* the files of the pull request (files.map(f => f.filename))
ChangedFiles == {<<"a", ".", "t", "s">>, <<"b", ".", "t", "s">>}

\* ReviewEngine.parseAIResponse.  JSON.parse and the reads of the parsed value are in
\* one try block: a SyntaxError, a document that is null and a comments field that
\* is not an array all end in the Markdown reading of the whole response.
ParseAIResponse(reply, files) ==
    LET jsonMatch == JsonMatch(reply)
        parsed == JsonParseText(jsonMatch.group)
        Keep(c) == c.path # <<>> /\ c.line # 0 /\ c.body # <<>> /\ c.path \in files
        items == IF parsed.comments.type = "array" THEN parsed.comments.items ELSE <<>>
        kept == SelectSeq(items, Keep)
    IN  IF /\ jsonMatch.matched
           /\ parsed.type = "object"
           /\ parsed.comments.type \in {"array", "undefined"}
        THEN [decision |-> IF parsed.decision = "APPROVED" THEN "APPROVED"
                           ELSE IF parsed.decision = "REQUEST_CHANGES" THEN "REQUEST_CHANGES"
                           ELSE "COMMENT",
              summary |-> IF parsed.summary # <<>> THEN parsed.summary ELSE DefaultSummary,
              comments |-> [i \in 1..Len(kept) |->
                              [path |-> kept[i].path, line |-> kept[i].line,
                               body |-> kept[i].body,
                               side |-> IF kept[i].side # "" THEN kept[i].side ELSE "RIGHT"]]]
        ELSE ParseMarkdownResponse(reply)

\* The text callAI returns when the call of the AI client raised:
\* JSON.stringify({ decision: 'COMMENT', summary: `AI U+5BA1U+67E5U+6682U+65F6U+4E0DU+53EFU+7528: ${errorMessage}`,
\* comments: [] })
AiUnavailable(errorMessage) ==
    <<"{", "\"", "d", "e", "c", "i", "s", "i", "o", "n", "\"", ":", "\"",
      "C", "O", "M", "M", "E", "N", "T", "\"", ",", "\"", "s", "u", "m",
      "m", "a", "r", "y", "\"", ":", "\"", "A", "I", " ", "U+5BA1",
      "U+67E5", "U+6682", "U+65F6", "U+4E0D", "U+53EF", "U+7528", ":",
      " ">>
        \o errorMessage \o <<"\"", ",", "\"", "c", "o", "m", "m", "e", "n", "t", "s", "\"", ":",
      "[", "]", "}">>

\* messages of errors the AI client raises
AiErrors == {<<"t", "i", "m", "e", "o", "u", "t">>, <<"m", "o", "d", "e", "l", " ", "n", "o", "t", " ", "a", "p", "p", "r",
      "o", "v", "e", "d">>}

Fenced(doc) == FenceOpen \o <<"\n">> \o doc \o <<"\n">> \o FenceClose

\* The answers of the Reviewer: an opening line, possibly a fenced block, a closing
\* part.  structured says that the answer has a fenced block with a well-formed
\* {decision, summary, comments} document.
Openings == {<<>>, <<"L", "G", "T", "M", "\n">>, <<"N", "o", "t", " ", "a", "p", "p", "r", "o", "v", "e", "d", " ", "y",
      "e", "t", ".", "\n">>}

StructuredDocs == {DocApproved, DocRequestChanges}

OtherDocs == {DocEmpty, DocNull, DocCommentsText, DocBroken, DocCut}

Closings ==
    {<<>>,
     <<"\n", "-", " ", "U+0060", "a", ".", "t", "s", ":", "3", "U+0060", " ",
      "-", " ", "f", "i", "x", " ", "t", "h", "i", "s", "\n", "*", " ",
      "b", ".", "t", "s", ":", "1", "0", ":", " ", "a", "n", "d", " ",
      "t", "h", "i", "s">>,
     <<"\n", "*", "*", "U+51B3", "U+7B56", "*", "*", ":", " ", "R", "E", "Q",
      "U", "E", "S", "T", "_", "C", "H", "A", "N", "G", "E", "S">>,
     <<"\n", "#", "#", " ", "U+603B", "U+7ED3", "\n", "f", "i", "n", "e",
      "\n", "#", "#", " ", "e", "n", "d">>}

AiAnswers ==
    {[kind |-> "text", text |-> o \o Fenced(d) \o c, structured |-> d \in StructuredDocs] :
        o \in Openings, d \in StructuredDocs \cup OtherDocs, c \in Closings}
    \cup {[kind |-> "text", text |-> o \o c, structured |-> FALSE] :
            o \in Openings, c \in Closings}
    \cup {[kind |-> "text", text |-> d, structured |-> FALSE] : d \in {DocApproved}}

AiOutcomes == AiAnswers \cup {[kind |-> "error", message |-> m] : m \in AiErrors}

\* 'U+6CA1U+6709U+53D1U+73B0U+4EE3U+7801U+53D8U+66F4U+FF0CU+8DF3U+8FC7U+5BA1U+67E5U+3002'
NoChangesSummary ==
    <<"U+6CA1", "U+6709", "U+53D1", "U+73B0", "U+4EE3", "U+7801", "U+53D8",
      "U+66F4", "U+FF0C", "U+8DF3", "U+8FC7", "U+5BA1", "U+67E5",
      "U+3002">>

\* the ReviewResult of a review that went through
ReviewSucceeded(decision, summary, commentsCount) ==
    [success |-> TRUE, decision |-> decision, summary |-> summary,
     commentsCount |-> commentsCount, error |-> ""]

\* the ReviewResult the catch block of executeReview returns
ReviewFailed(errorMessage) ==
    [success |-> FALSE, decision |-> "", summary |-> <<>>, commentsCount |-> 0,
     error |-> errorMessage]

NoAi == [kind |-> "none"]

NoReview == [decision |-> "", summary |-> <<>>, comments |-> <<>>]

\* ReviewEngine.executeReview(context) is called
InitEngine ==
    /\ InitServer
    /\ cr = Idle
    /\ ret = NoRet
    /\ call = [fn |-> "executeReview", pc |-> "getDiff", diff |-> <<>>, ai |-> NoAi,
               aiResult |-> <<>>, review |-> NoReview]

EngineAt(pc) == call.fn = "executeReview" /\ call.pc = pc

\* await context.provider.getPullRequestDiff(owner, repo, prNumber)
EngineGetDiff ==
    /\ EngineAt("getDiff")
    /\ \/ /\ \E diff \in Diffs : call' = [call EXCEPT !.pc = "getFiles", !.diff = diff]
          /\ ret' = ret
       \/ /\ call' = [call EXCEPT !.pc = "done"]
          /\ ret' = ReviewFailed("Failed to get PR diff")
    /\ UNCHANGED <<serverVars, cr>>

\* await context.provider.getPullRequestFiles(...), then the test of the diff
EngineGetFiles ==
    /\ EngineAt("getFiles")
    /\ \/ /\ IsBlank(call.diff)
          /\ call' = [call EXCEPT !.pc = "done"]
          /\ ret' = ReviewSucceeded("COMMENT", NoChangesSummary, 0)
       \/ /\ ~IsBlank(call.diff)
          /\ call' = [call EXCEPT !.pc = "callAI"]
          /\ ret' = ret
       \/ /\ call' = [call EXCEPT !.pc = "done"]
          /\ ret' = ReviewFailed(FetchError.message)
    /\ UNCHANGED <<serverVars, cr>>

\* await this.callAI(systemPrompt, userPrompt) returns, the text of the Reviewer or
\* the text callAI makes of an error; this.parseAIResponse(aiResult, files) reads it
\* and createReview is called with the result
EngineCallAI ==
    /\ EngineAt("callAI")
    /\ \E ai \in AiOutcomes :
          LET aiResult == IF ai.kind = "text" THEN ai.text ELSE AiUnavailable(ai.message)
          IN  call' = [call EXCEPT !.pc = "createReview", !.ai = ai, !.aiResult = aiResult,
                                   !.review = ParseAIResponse(aiResult, ChangedFiles)]
    /\ ret' = ret
    /\ UNCHANGED <<serverVars, cr>>

\* await context.provider.createReview(owner, repo, prNumber, review)
EngineCreateReview ==
    /\ EngineAt("createReview")
    /\ call' = [call EXCEPT !.pc = "done"]
    /\ \/ ret' = ReviewSucceeded(call.review.decision, call.review.summary,
                                 Len(call.review.comments))
       \/ ret' = ReviewFailed(FetchError.message)
    /\ UNCHANGED <<serverVars, cr>>

NextEngine ==
    \/ EngineGetDiff
    \/ EngineGetFiles
    \/ EngineCallAI
    \/ EngineCreateReview

SpecEngine == InitEngine /\ [][NextEngine]_vars

\* the Reviewer gave no well-formed structured answer: the call failed, or the answer
\* has no fenced block, or the block is not a well-formed document
NoStructuredPayload == call.ai.kind = "error" \/ ~call.ai.structured

\* C15: whenever the engine obtained no well-formed structured answer, the review it
\* submits has decision COMMENT and no comments, and executeReview reports
\* success when the forge accepts the review.
C15_FallbackIsCommentWithoutComments ==
    (call.fn = "executeReview" /\ call.ai.kind # "none" /\ NoStructuredPayload) =>
        /\ call.review.decision = "COMMENT"
        /\ call.review.comments = <<>>
        /\ call.pc = "done" => (ret.success \/ ret.error = FetchError.message)



(***************************************************************************)
(* gitea-pr-files (incremental review): findLastReviewedCommit and         *)
(* findCommitsAfter on the commits and reviews of a pull request.  A       *)
(* submitted_at is the time new Date(...).getTime() gives for it.          *)
(***************************************************************************)
MaxCommits == 3

MaxListedReviews == 2

MaxTime == 3

\* commit hashes: the first MaxCommits are the commits of the pull request, in
\* order, the next one is a hash no commit of the pull request has any more
ShaNames == <<"a1", "b2", "c3", "d4", "e5", "f6">>

StaleSha == ShaNames[MaxCommits + 1]

\* a value of type string | null
Str(value) == [kind |-> "string", value |-> value]

\* the Commit[] of a pull request with n commits
CommitList(n) == [i \in 1..n |-> [sha |-> ShaNames[i]]]

\* the Review values of the model; commit_id "" is a review without commit
ListedReviews ==
    [commit_id : {""} \cup {ShaNames[i] : i \in 1..(MaxCommits + 1)},
     submitted_at : 1..MaxTime]

\* Array.prototype.sort with (a, b) => b.submitted_at - a.submitted_at puts x, which
\* came before every element of sorted, in its place: the sort is stable
Insert(x, sorted) ==
    LET later == {k \in 1..Len(sorted) : sorted[k].submitted_at > x.submitted_at}
        n == IF later = {} THEN 0 ELSE Max(later)
    IN  SubSeq(sorted, 1, n) \o <<x>> \o SubSeq(sorted, n + 1, Len(sorted))

RECURSIVE SortLatestFirst(_)
SortLatestFirst(list) ==
    IF list = <<>> THEN <<>> ELSE Insert(Head(list), SortLatestFirst(Tail(list)))

\* The mutant: reviews are not filtered by the commits of the pull request.
FindLastReviewedCommitAnySha(reviewList, commits) ==
    IF reviewList.kind = "undefined" \/ Len(reviewList.items) = 0 THEN Null
    ELSE LET HasCommit(r) == r.commit_id # ""
             validReviews == SortLatestFirst(SelectSeq(reviewList.items, HasCommit))
         IN  IF Len(validReviews) > 0 THEN Str(validReviews[1].commit_id) ELSE Null

\* findLastReviewedCommit(reviews, commits)
FindLastReviewedCommit(reviewList, commits) ==
    IF reviewList.kind = "undefined" \/ Len(reviewList.items) = 0 THEN Null
    ELSE LET commitShas == {commits[i].sha : i \in 1..Len(commits)}
             IsValid(r) == r.commit_id # "" /\ r.commit_id \in commitShas
             validReviews == SortLatestFirst(SelectSeq(reviewList.items, IsValid))
         IN  IF Len(validReviews) > 0 THEN Str(validReviews[1].commit_id) ELSE Null

\* The mutant: the slice starts at the commit that was found.
FindCommitsAfterInclusive(commits, afterSha) ==
    IF afterSha.kind = "null" \/ afterSha.value = "" THEN commits
    ELSE LET found == {i \in 1..Len(commits) : commits[i].sha = afterSha.value}
         IN  IF found = {} THEN commits
             ELSE SubSeq(commits, Min(found), Len(commits))

\* findCommitsAfter(commits, afterSha)
FindCommitsAfter(commits, afterSha) ==
    IF afterSha.kind = "null" \/ afterSha.value = "" THEN commits
    ELSE LET found == {i \in 1..Len(commits) : commits[i].sha = afterSha.value}
         IN  IF found = {} THEN commits
             ELSE SubSeq(commits, Min(found) + 1, Len(commits))

Return(value) == [kind |-> "return", value |-> value]

ReviewLists ==
    {[kind |-> "undefined"]}
        \cup {[kind |-> "array", items |-> l] : l \in SeqsUpTo(ListedReviews, MaxListedReviews)}

InitIncremental ==
    /\ InitServer
    /\ cr = Idle
    /\ ret = NoRet
    /\ \/ \E reviewList \in ReviewLists, n \in 0..MaxCommits,
             fn \in {"findLastReviewedCommit", "incrementalDiff"} :
             call = [fn |-> fn, reviews |-> reviewList, commits |-> CommitList(n)]
       \/ \E n \in 0..MaxCommits,
             afterSha \in {Null, Str("")} \cup {Str(ShaNames[i]) : i \in 1..(MaxCommits + 1)} :
             call = [fn |-> "findCommitsAfter", commits |-> CommitList(n),
                     afterSha |-> afterSha]

CallFindLastReviewedCommit ==
    /\ call.fn = "findLastReviewedCommit"
    /\ ret = NoRet
    /\ ret' = Return(FindLastReviewedCommit(call.reviews, call.commits))
    /\ UNCHANGED <<serverVars, cr, call>>

CallFindCommitsAfter ==
    /\ call.fn = "findCommitsAfter"
    /\ ret = NoRet
    /\ ret' = Return(FindCommitsAfter(call.commits, call.afterSha))
    /\ UNCHANGED <<serverVars, cr, call>>

\* the branch of the tool's status message
StatusMessage(lastReviewedCommit, newCommits, commits) ==
    IF lastReviewedCommit.kind = "null" \/ lastReviewedCommit.value = ""
    THEN "First Review"
    ELSE IF Len(newCommits) = 0 THEN "No New Changes"
    ELSE IF Len(newCommits) = Len(commits) THEN "Rebase Detected"
    ELSE "Incremental Review"

\* the tool: lastReviewedCommit = findLastReviewedCommit(reviews, commits);
\* newCommits = findCommitsAfter(commits, lastReviewedCommit)
\* and the status message it builds from them
CallIncrementalDiff ==
    /\ call.fn = "incrementalDiff"
    /\ ret = NoRet
    /\ LET lastReviewedCommit == FindLastReviewedCommit(call.reviews, call.commits)
           newCommits == FindCommitsAfter(call.commits, lastReviewedCommit)
       IN  ret' = [kind |-> "return", value |-> newCommits,
                   status |-> StatusMessage(lastReviewedCommit, newCommits, call.commits)]
    /\ UNCHANGED <<serverVars, cr, call>>

NextIncremental ==
    \/ CallFindLastReviewedCommit
    \/ CallFindCommitsAfter
    \/ CallIncrementalDiff

SpecIncremental == InitIncremental /\ [][NextIncremental]_vars

\* the reviews of the call, as a sequence (none when reviews is undefined)
ReviewItems == IF call.reviews.kind = "undefined" THEN <<>> ELSE call.reviews.items

\* the indices of the reviews whose commit_id is the sha of a commit of the call
ValidReviews ==
    {i \in 1..Len(ReviewItems) :
        /\ ReviewItems[i].commit_id # ""
        /\ \E j \in 1..Len(call.commits) : call.commits[j].sha = ReviewItems[i].commit_id}

\* the valid reviews none of which is later
LatestValidReviews ==
    {i \in ValidReviews :
        \A j \in ValidReviews : ReviewItems[j].submitted_at <= ReviewItems[i].submitted_at}

\* C16: findLastReviewedCommit returns null when reviews is empty or undefined or no
\* review has a non-empty commit_id that is the sha of a commit; otherwise it returns
\* the commit_id of a review that has the latest submitted_at among the reviews
\* whose commit_id is the sha of a commit.
C16_LastReviewedCommit ==
    (call.fn = "findLastReviewedCommit" /\ ret # NoRet) =>
        IF ValidReviews = {}
        THEN ret.value.kind = "null"
        ELSE /\ ret.value.kind = "string"
             /\ \E i \in LatestValidReviews : ret.value.value = ReviewItems[i].commit_id

\* the most recent review has a stale sha and an older review was returned
C16_Witness ==
    /\ call.fn = "findLastReviewedCommit"
    /\ ret # NoRet
    /\ ret.value.kind = "string"
    /\ \E i \in 1..Len(ReviewItems) :
          /\ ReviewItems[i].commit_id = StaleSha
          /\ \A j \in ValidReviews : ReviewItems[j].submitted_at < ReviewItems[i].submitted_at

\* C17: findCommitsAfter returns the commits unchanged when sha is null or is not the
\* sha of a commit, and otherwise the commits after the one with that sha, in order;
\* after findLastReviewedCommit it returns all commits when there are no reviews
\* and no commit when every latest valid review references the last commit.
C17_CommitsAfter ==
    /\ (call.fn = "findCommitsAfter" /\ ret # NoRet) =>
          LET commits == call.commits
              at == {i \in 1..Len(commits) :
                        call.afterSha.kind = "string" /\ commits[i].sha = call.afterSha.value}
          IN  IF at = {}
              THEN ret.value = commits
              ELSE \E i \in at :
                      /\ Len(ret.value) = Len(commits) - i
                      /\ \A k \in 1..Len(ret.value) : ret.value[k] = commits[i + k]
    /\ (call.fn = "incrementalDiff" /\ ret # NoRet) =>
          /\ Len(ReviewItems) = 0 => ret.value = call.commits
          /\ (/\ LatestValidReviews # {}
              /\ \A i \in LatestValidReviews :
                    ReviewItems[i].commit_id = call.commits[Len(call.commits)].sha)
                => ret.value = <<>>

\* the commits after a commit in the middle were returned
C17_Witness ==
    /\ call.fn = "findCommitsAfter"
    /\ ret # NoRet
    /\ Len(call.commits) = 3
    /\ call.afterSha = Str(ShaNames[1])
    /\ Len(ret.value) = 2

\* the latest valid review references the last commit: no new commit
C17_WitnessReviewed ==
    /\ call.fn = "incrementalDiff"
    /\ ret # NoRet
    /\ Len(call.commits) = 2
    /\ Len(ReviewItems) = 2
    /\ ret.value = <<>>

\* the reviews of the call that name a commit
PreviousReviews == {i \in 1..Len(ReviewItems) : ReviewItems[i].commit_id # ""}

\* C25: the tool reports 'First Review' when the pull request has no previous
\* review, 'Rebase Detected' when it has previous reviews and none of the commits
\* they reviewed is in the commit list, 'No New Changes' when the last reviewed
\* commit is the final commit, and 'Incremental Review' otherwise.
C25_FourOutcomes ==
    (call.fn = "incrementalDiff" /\ ret # NoRet) =>
        ret.status =
            IF PreviousReviews = {} THEN "First Review"
            ELSE IF ValidReviews = {} THEN "Rebase Detected"
            ELSE IF ret.value = <<>> THEN "No New Changes"
            ELSE "Incremental Review"

\* C26: no commit the tool returns as new is the commit of a review.
C26_NewCommitsUnreviewed ==
    (call.fn = "incrementalDiff" /\ ret # NoRet) =>
        \A k \in 1..Len(ret.value) :
            \A i \in 1..Len(ReviewItems) : ReviewItems[i].commit_id # ret.value[k].sha

(***************************************************************************)
(* parseDiff (gitea-pr-diff, gitea-pr-files): the lines of a unified diff  *)
(* to files, hunks and changes.  The argument is the sequence              *)
(* diffText.split("\n") of the lines of the text, each a text.             *)
(***************************************************************************)
MaxLines == 4

FileMarker == <<"d", "i", "f", "f", " ", "-", "-", "g", "i", "t">>

HunkMarker == <<"@", "@">>

\* the lines of the model
HeaderX == <<"d", "i", "f", "f", " ", "-", "-", "g", "i", "t", " ", "a", "/", "x",
      " ", "b", "/", "x">>

HeaderDbY == <<"d", "i", "f", "f", " ", "-", "-", "g", "i", "t", " ", "a", "/", "d",
      "b", "/", "y", " ", "b", "/", "d", "b", "/", "y">>

NewFileLine == <<"n", "e", "w", " ", "f", "i", "l", "e", " ", "m", "o", "d", "e", " ",
      "1", "0", "0", "6", "4", "4">>

HunkTen == <<"@", "@", " ", "-", "1", "0", ",", "3", " ", "+", "1", "0", ",", "4",
      " ", "@", "@">>

HunkTenBare == <<"@", "@", " ", "-", "1", "0", " ", "+", "1", "0", ",", "9", " ", "@",
      "@", " ", "f", "(", ")">>

HunkThreeFive == <<"@", "@", " ", "-", "3", " ", "+", "5", " ", "@", "@">>

HunkBroken == <<"@", "@", " ", "-", "x", " ", "+", "y", " ", "@", "@">>

AddLine == <<"+", "a">>

DelLine == <<"-", "b">>

ContextLine == <<" ", "c">>

NoNewlineLine == <<"\\", " ", "N", "o", " ", "n", "e", "w", "l", "i", "n", "e">>

DiffLines ==
    {HeaderX, HeaderDbY, NewFileLine, HunkTen, HunkTenBare, HunkThreeFive, HunkBroken,
     AddLine, DelLine, ContextLine, NoNewlineLine}

\* \d+ from index i on: the index of the first character it does not take
SkipDigits(text, i) ==
    Min({j \in i..(Len(text) + 1) : j > Len(text) \/ ~IsDigit(text[j])})

\* (?:,\d+)? from index i on: the index of the first character it does not take
SkipLength(text, i) ==
    IF i <= Len(text) /\ text[i] = "," /\ SkipDigits(text, i + 1) > i + 1
    THEN SkipDigits(text, i + 1)
    ELSE i

\* /@@ -(\d+)(?:,\d+)? \+(\d+)(?:,\d+)? @@/ tried at index i of the line
HunkMatchAt(line, i) ==
    LET oldFrom == i + 4
        oldTo == SkipDigits(line, oldFrom)
        plus == SkipLength(line, oldTo)
        newFrom == plus + 2
        newTo == SkipDigits(line, newFrom)
        close == SkipLength(line, newTo)
    IN  IF /\ OccursAt(line, i, <<"@", "@", " ", "-">>)
           /\ oldTo > oldFrom
           /\ OccursAt(line, plus, <<" ", "+">>)
           /\ newTo > newFrom
           /\ OccursAt(line, close, <<" ", "@", "@">>)
        THEN [matched |-> TRUE,
              oldStart |-> ParseInt(SubSeq(line, oldFrom, oldTo - 1)),
              newStart |-> ParseInt(SubSeq(line, newFrom, newTo - 1))]
        ELSE [matched |-> FALSE]

\* lines[i].match(/@@ -(\d+)(?:,\d+)? \+(\d+)(?:,\d+)? @@/)
HunkMatch(line) ==
    LET at == {i \in 1..Len(line) : HunkMatchAt(line, i).matched}
    IN  IF at = {} THEN [matched |-> FALSE] ELSE HunkMatchAt(line, Min(at))

\* line.match(/b\/(.+)$/): group 1, or "unknown"
PathOf(line) ==
    LET at == {i \in 1..(Len(line) - 2) : OccursAt(line, i, <<"b", "/">>)}
    IN  IF at = {} THEN <<"u", "n", "k", "n", "o", "w", "n">> ELSE SubSeq(line, Min(at) + 2, Len(line))

\* the index of the first line from index i on that starts with "@@", the number of
\* lines plus one when there is none
FirstHunkLine(lines, i) ==
    Min({j \in i..(Len(lines) + 1) : j > Len(lines) \/ StartsWith(lines[j], HunkMarker)})

RECURSIVE StatusOf(_, _, _, _)
\* the status loop over the lines i..(j - 1), status being the value so far
StatusOf(lines, i, j, status) ==
    IF i >= j THEN status
    ELSE StatusOf(lines, i + 1, j,
                  IF StartsWith(lines[i], <<"n", "e", "w", " ", "f", "i", "l", "e">>) THEN "added"
                  ELSE IF StartsWith(lines[i], <<"d", "e", "l", "e", "t", "e", "d", " ", "f", "i", "l", "e">>) THEN "deleted"
                  ELSE IF StartsWith(lines[i], <<"r", "e", "n", "a", "m", "e">>) THEN "renamed"
                  ELSE status)

\* The mutant: an added line advances both counters.
PushChangeBothCounters(line, content, oldLine, newLine) ==
    IF StartsWith(line, <<"+">>)
    THEN [changes |-> <<[type |-> "add", content |-> content, newLine |-> newLine]>>,
          oldLine |-> oldLine + 1, newLine |-> newLine + 1]
    ELSE IF StartsWith(line, <<"-">>)
    THEN [changes |-> <<[type |-> "del", content |-> content, oldLine |-> oldLine]>>,
          oldLine |-> oldLine + 1, newLine |-> newLine]
    ELSE IF StartsWith(line, <<" ">>)
    THEN [changes |-> <<[type |-> "normal", content |-> content,
                         oldLine |-> oldLine, newLine |-> newLine]>>,
          oldLine |-> oldLine + 1, newLine |-> newLine + 1]
    ELSE [changes |-> <<>>, oldLine |-> oldLine, newLine |-> newLine]

\* The mutant: a deleted line leaves the counters as they are.
PushChangeDelKeepsCounter(line, content, oldLine, newLine) ==
    IF StartsWith(line, <<"+">>)
    THEN [changes |-> <<[type |-> "add", content |-> content, newLine |-> newLine]>>,
          oldLine |-> oldLine, newLine |-> newLine + 1]
    ELSE IF StartsWith(line, <<"-">>)
    THEN [changes |-> <<[type |-> "del", content |-> content, oldLine |-> oldLine]>>,
          oldLine |-> oldLine, newLine |-> newLine]
    ELSE IF StartsWith(line, <<" ">>)
    THEN [changes |-> <<[type |-> "normal", content |-> content,
                         oldLine |-> oldLine, newLine |-> newLine]>>,
          oldLine |-> oldLine + 1, newLine |-> newLine + 1]
    ELSE [changes |-> <<>>, oldLine |-> oldLine, newLine |-> newLine]

\* one line of a hunk: the change it pushes, if any, and the counters after it
PushChange(line, content, oldLine, newLine) ==
    IF StartsWith(line, <<"+">>)
    THEN [changes |-> <<[type |-> "add", content |-> content, newLine |-> newLine]>>,
          oldLine |-> oldLine, newLine |-> newLine + 1]
    ELSE IF StartsWith(line, <<"-">>)
    THEN [changes |-> <<[type |-> "del", content |-> content, oldLine |-> oldLine]>>,
          oldLine |-> oldLine + 1, newLine |-> newLine]
    ELSE IF StartsWith(line, <<" ">>)
    THEN [changes |-> <<[type |-> "normal", content |-> content,
                         oldLine |-> oldLine, newLine |-> newLine]>>,
          oldLine |-> oldLine + 1, newLine |-> newLine + 1]
    ELSE [changes |-> <<>>, oldLine |-> oldLine, newLine |-> newLine]

RECURSIVE ParseChangesEndAtOther(_, _, _, _)
\* The mutant: a line with another first character ends the hunk.
ParseChangesEndAtOther(lines, i, oldLine, newLine) ==
    IF \/ i > Len(lines)
       \/ ~(StartsWith(lines[i], <<"+">>) \/ StartsWith(lines[i], <<"-">>)
                \/ StartsWith(lines[i], <<" ">>))
    THEN [changes |-> <<>>, next |-> i]
    ELSE LET pushed == PushChange(lines[i], Slice(lines[i], 1), oldLine, newLine)
             rest == ParseChangesEndAtOther(lines, i + 1, pushed.oldLine, pushed.newLine)
         IN  [changes |-> pushed.changes \o rest.changes, next |-> rest.next]

RECURSIVE ParseChanges(_, _, _, _)
\* the loop over the lines of a hunk from index i on: the changes and the index of
\* the line that ends the hunk
ParseChanges(lines, i, oldLine, newLine) ==
    IF i > Len(lines) \/ StartsWith(lines[i], HunkMarker) \/ StartsWith(lines[i], FileMarker)
    THEN [changes |-> <<>>, next |-> i]
    ELSE LET pushed == PushChange(lines[i], Slice(lines[i], 1), oldLine, newLine)
             rest == ParseChanges(lines, i + 1, pushed.oldLine, pushed.newLine)
         IN  [changes |-> pushed.changes \o rest.changes, next |-> rest.next]

RECURSIVE ParseHunks(_, _)
\* the loop over the hunks of a file from index i on: the hunks and the index of the
\* line that ends the file
ParseHunks(lines, i) ==
    IF i > Len(lines) \/ StartsWith(lines[i], FileMarker)
    THEN [hunks |-> <<>>, next |-> i]
    ELSE IF StartsWith(lines[i], HunkMarker) /\ HunkMatch(lines[i]).matched
    THEN LET hunkMatch == HunkMatch(lines[i])
             body == ParseChanges(lines, i + 1, hunkMatch.oldStart, hunkMatch.newStart)
             rest == ParseHunks(lines, body.next)
         IN  [hunks |-> <<[oldStart |-> hunkMatch.oldStart, newStart |-> hunkMatch.newStart,
                           changes |-> body.changes]>> \o rest.hunks,
              next |-> rest.next]
    ELSE ParseHunks(lines, i + 1)

RECURSIVE ParseFiles(_, _)
\* the outer loop of parseDiff from index i on
ParseFiles(lines, i) ==
    IF i > Len(lines) THEN <<>>
    ELSE IF StartsWith(lines[i], FileMarker)
    THEN LET first == FirstHunkLine(lines, i)
             parsed == ParseHunks(lines, first)
         IN  <<[path |-> PathOf(lines[i]),
                status |-> StatusOf(lines, i, first, "modified"),
                hunks |-> parsed.hunks]>>
             \o ParseFiles(lines, parsed.next)
    ELSE ParseFiles(lines, i + 1)

\* parseDiff(diffText), lines being diffText.split("\n")
ParseDiff(lines) == ParseFiles(lines, 1)

InitDiff ==
    /\ InitServer
    /\ cr = Idle
    /\ ret = NoRet
    /\ \E lines \in SeqsUpTo(DiffLines, MaxLines) : call = [fn |-> "parseDiff", lines |-> lines]

CallParseDiff ==
    /\ call.fn = "parseDiff"
    /\ ret = NoRet
    /\ ret' = Return(ParseDiff(call.lines))
    /\ UNCHANGED <<serverVars, cr, call>>

NextDiff == CallParseDiff

SpecDiff == InitDiff /\ [][NextDiff]_vars

(***************************************************************************)
(* Properties of parseDiff (SpecDiff).                                     *)
(***************************************************************************)
RECURSIVE Flatten(_)
Flatten(lists) == IF lists = <<>> THEN <<>> ELSE Head(lists) \o Flatten(Tail(lists))

\* the hunks parseDiff returned, over all files, in order
ReturnedHunks == Flatten([f \in 1..Len(ret.value) |-> ret.value[f].hunks])

\* the start lines each well-formed hunk header of the model declares
DeclaredStarts(line) ==
    CASE line = HunkTen -> <<10, 10>>
      [] line = HunkTenBare -> <<10, 10>>
      [] line = HunkThreeFive -> <<3, 5>>
      [] OTHER -> <<>>

\* the indices of the file headers among the lines of the call
FileHeaders == {i \in 1..Len(call.lines) : StartsWith(call.lines[i], FileMarker)}

\* the well-formed hunk headers that come after a file header, in order
HunkHeaders ==
    LET IsHeader(line) == DeclaredStarts(line) # <<>>
        from == IF FileHeaders = {} THEN Len(call.lines) + 1 ELSE Min(FileHeaders)
    IN  SelectSeq(SubSeq(call.lines, from, Len(call.lines)), IsHeader)

\* the changes of a hunk that have a line number on the given side
OnSide(changes, types) ==
    LET Has(c) == c.type \in types IN SelectSeq(changes, Has)

\* C18: the hunks are those of the well-formed hunk headers, with the starts the
\* header declares whatever lengths it declares; in each hunk an add change has
\* only a newLine, a del change only an oldLine, a context change both, the
\* newLine values of the add and context changes count up from newStart and the
\* oldLine values of the del and context changes count up from oldStart.
C18_LineNumbersCountUp ==
    (call.fn = "parseDiff" /\ ret # NoRet) =>
        /\ Len(ReturnedHunks) = Len(HunkHeaders)
        /\ \A h \in 1..Len(ReturnedHunks) :
              LET hunk == ReturnedHunks[h]
                  newSide == OnSide(hunk.changes, {"add", "normal"})
                  oldSide == OnSide(hunk.changes, {"del", "normal"})
              IN  /\ <<hunk.oldStart, hunk.newStart>> = DeclaredStarts(HunkHeaders[h])
                  /\ \A k \in 1..Len(hunk.changes) :
                        LET c == hunk.changes[k]
                        IN  /\ c.type \in {"add", "del", "normal"}
                            /\ "newLine" \in DOMAIN c <=> c.type \in {"add", "normal"}
                            /\ "oldLine" \in DOMAIN c <=> c.type \in {"del", "normal"}
                  /\ \A k \in 1..Len(newSide) : newSide[k].newLine = hunk.newStart + k - 1
                  /\ \A k \in 1..Len(oldSide) : oldSide[k].oldLine = hunk.oldStart + k - 1

\* a hunk with an added line and a context line after it was parsed
C18_Witness ==
    /\ call.fn = "parseDiff"
    /\ ret # NoRet
    /\ \E h \in 1..Len(ReturnedHunks) :
          /\ Len(ReturnedHunks[h].changes) = 2
          /\ ReturnedHunks[h].changes[1].type = "add"
          /\ ReturnedHunks[h].changes[2].type = "normal"
          /\ ReturnedHunks[h].changes[2].newLine = 11

\* C19 as stated: for every context change of a hunk, newLine - oldLine equals
\* newStart - oldStart.
C19_ContextOffsetConstant ==
    (call.fn = "parseDiff" /\ ret # NoRet) =>
        \A h \in 1..Len(ReturnedHunks) :
            \A k \in 1..Len(ReturnedHunks[h].changes) :
                LET hunk == ReturnedHunks[h]
                    c == hunk.changes[k]
                IN  c.type = "normal" =>
                        c.newLine - c.oldLine = hunk.newStart - hunk.oldStart

\* the number of changes of the given type among the first k - 1 changes
Before(changes, k, type) ==
    Cardinality({j \in 1..(k - 1) : changes[j].type = type})

\* C19, amended: for every context change of a hunk, newLine - oldLine equals
\* newStart - oldStart plus the number of add changes before it in the hunk minus
\* the number of del changes before it.
C19_ContextOffsetFollowsChanges ==
    (call.fn = "parseDiff" /\ ret # NoRet) =>
        \A h \in 1..Len(ReturnedHunks) :
            \A k \in 1..Len(ReturnedHunks[h].changes) :
                LET hunk == ReturnedHunks[h]
                    c == hunk.changes[k]
                IN  c.type = "normal" =>
                        c.newLine - c.oldLine =
                            hunk.newStart - hunk.oldStart
                                + Before(hunk.changes, k, "add")
                                - Before(hunk.changes, k, "del")

\* a context change after a deleted line, in a hunk whose starts differ
C19_Witness ==
    /\ call.fn = "parseDiff"
    /\ ret # NoRet
    /\ \E h \in 1..Len(ReturnedHunks) :
          /\ ReturnedHunks[h].oldStart = 3
          /\ Len(ReturnedHunks[h].changes) = 2
          /\ ReturnedHunks[h].changes[1].type = "del"
          /\ ReturnedHunks[h].changes[2].type = "normal"

\* the path on the b/ side of a file header: the text after its last " b/"
NewSidePath(line) ==
    LET at == {i \in 1..Len(line) : OccursAt(line, i, <<" ", "b", "/">>)}
    IN  SubSeq(line, Max(at) + 3, Len(line))

\* the well-formed hunk headers among the lines i..j
HunkHeadersIn(i, j) ==
    LET IsHeader(line) == DeclaredStarts(line) # <<>>
    IN  SelectSeq(SubSeq(call.lines, i, j), IsHeader)

\* C20: parseDiff returns one file for each line that starts with 'diff --git', in
\* order, with the path of the b/ side of that line and with the hunks of the
\* hunk headers between that line and the next file header.
C20_OneFilePerHeader ==
    (call.fn = "parseDiff" /\ ret # NoRet) =>
        LET headers == SelectSeq([i \in 1..Len(call.lines) |-> i],
                                 LAMBDA i : i \in FileHeaders)
            End(f) == IF f < Len(headers) THEN headers[f + 1] - 1 ELSE Len(call.lines)
        IN  /\ Len(ret.value) = Len(headers)
            /\ \A f \in 1..Len(ret.value) :
                  /\ ret.value[f].path = NewSidePath(call.lines[headers[f]])
                  /\ Len(ret.value[f].hunks) = Len(HunkHeadersIn(headers[f], End(f)))



\* the indices of the well-formed hunk headers that come after a file header
HunkHeaderIndices ==
    LET from == IF FileHeaders = {} THEN Len(call.lines) + 1 ELSE Min(FileHeaders)
    IN  SelectSeq([i \in 1..Len(call.lines) |-> i],
                  LAMBDA i : i >= from /\ DeclaredStarts(call.lines[i]) # <<>>)

\* a line that records a change
IsChangeLine(line) ==
    StartsWith(line, <<"+">>) \/ StartsWith(line, <<"-">>) \/ StartsWith(line, <<" ">>)

\* the index of the first line after index p that is not a change line, the number
\* of lines plus one when there is none
FirstOtherLine(p) ==
    Min({j \in (p + 1)..(Len(call.lines) + 1) :
            j > Len(call.lines) \/ ~IsChangeLine(call.lines[j])})

\* the index of the first line after index p that starts with "@@" or "diff --git",
\* the number of lines plus one when there is none
FirstMarkerLine(p) ==
    Min({j \in (p + 1)..(Len(call.lines) + 1) :
            \/ j > Len(call.lines)
            \/ StartsWith(call.lines[j], HunkMarker)
            \/ StartsWith(call.lines[j], FileMarker)})

\* the contents of the change lines among the lines p + 1 .. q - 1
ChangeContents(p, q) ==
    LET picked == SelectSeq(SubSeq(call.lines, p + 1, q - 1), IsChangeLine)
    IN  [k \in 1..Len(picked) |-> Slice(picked[k], 1)]

\* the contents of the changes of a hunk
ContentsOf(hunk) == [k \in 1..Len(hunk.changes) |-> hunk.changes[k].content]

\* C21 as stated: the changes of a hunk are those of the change lines that follow
\* its header without interruption; the first line with another first character
\* ends the hunk.
C21_OtherLineEndsHunk ==
    (call.fn = "parseDiff" /\ ret # NoRet /\ Len(ReturnedHunks) = Len(HunkHeaderIndices)) =>
        \A h \in 1..Len(ReturnedHunks) :
            LET p == HunkHeaderIndices[h]
            IN  ContentsOf(ReturnedHunks[h]) = ChangeContents(p, FirstOtherLine(p))

\* C21, amended: a line of a hunk with another first character records no change
\* and the scan goes on: the changes of a hunk are those of all the change lines
\* between its header and the next line that starts with "@@" or "diff --git".
C21_OtherLineIsSkipped ==
    (call.fn = "parseDiff" /\ ret # NoRet) =>
        /\ Len(ReturnedHunks) = Len(HunkHeaderIndices)
        /\ \A h \in 1..Len(ReturnedHunks) :
              LET p == HunkHeaderIndices[h]
              IN  ContentsOf(ReturnedHunks[h]) = ChangeContents(p, FirstMarkerLine(p))

\* a hunk with a line of another first character and a change line after it
C21_Witness ==
    /\ call.fn = "parseDiff"
    /\ ret # NoRet
    /\ Len(ReturnedHunks) = 1
    /\ Len(ReturnedHunks[1].changes) = 1
    /\ call.lines[HunkHeaderIndices[1] + 1] = NoNewlineLine
    /\ Len(call.lines) = HunkHeaderIndices[1] + 2


(***************************************************************************)
(* Review tags (gitea-review): formatReviewTag, parseReviewTag and         *)
(* formatCommentBody.                                                      *)
(***************************************************************************)
REVIEW_CATEGORIES ==
    <<<<"B", "U", "G">>, <<"S", "E", "C", "U", "R", "I", "T", "Y">>, <<"P", "E", "R", "F", "O", "R", "M", "A", "N", "C", "E">>, <<"S", "T", "Y", "L", "E">>, <<"D", "O", "C", "S">>, <<"T", "E", "S", "T">>>>

REVIEW_SEVERITIES == <<<<"C", "R", "I", "T", "I", "C", "A", "L">>, <<"H", "I", "G", "H">>, <<"M", "E", "D", "I", "U", "M">>, <<"L", "O", "W">>>>

\* Array.prototype.includes
ArrayIncludes(array, value) == \E k \in 1..Len(array) : array[k] = value

\* The mutant: a dash stands between the category and the severity.
FormatReviewTagDash(category, severity) ==
    <<"*", "*", "[">> \o category \o <<"-">> \o severity \o <<"]", "*", "*">>

\* `**[${category}:${severity}]**`
FormatReviewTag(category, severity) ==
    <<"*", "*", "[">> \o category \o <<":">> \o severity \o <<"]", "*", "*">>

\* [A-Z]
IsUpper(c) == \E k \in 1..Len(UpperAZ) : UpperAZ[k] = c

\* [A-Z]+ from index i on: the index of the first character it does not take
SkipUpper(text, i) ==
    Min({j \in i..(Len(text) + 1) : j > Len(text) \/ ~IsUpper(text[j])})

\* \[([A-Z]+):([A-Z]+)\] tried at index j: whether it matches, and the two groups
BracketAt(body, j) ==
    LET colon == SkipUpper(body, j + 1)
        close == SkipUpper(body, colon + 1)
    IN  IF /\ OccursAt(body, j, <<"[">>)
           /\ colon > j + 1
           /\ OccursAt(body, colon, <<":">>)
           /\ close > colon + 1
           /\ OccursAt(body, close, <<"]">>)
        THEN [matched |-> TRUE,
              category |-> SubSeq(body, j + 1, colon - 1),
              severity |-> SubSeq(body, colon + 1, close - 1)]
        ELSE [matched |-> FALSE]

\* body.match(/\*?\*?\[([A-Z]+):([A-Z]+)\]\*?\*?/): the leftmost match, which
\* starts at the bracket or at one or two stars before it
TagMatch(body) ==
    LET StartsAt(i) ==
            \E k \in 0..2 :
                /\ \A m \in 0..(k - 1) : OccursAt(body, i + m, <<"*">>)
                /\ BracketAt(body, i + k).matched
        starts == {i \in 1..Len(body) : StartsAt(i)}
    IN  IF starts = {} THEN [matched |-> FALSE]
        ELSE BracketAt(body, Min({j \in Min(starts)..Len(body) : BracketAt(body, j).matched}))

\* parseReviewTag(body)
ParseReviewTag(body) ==
    LET match == TagMatch(body)
    IN  IF ~match.matched THEN Null
        ELSE IF /\ ArrayIncludes(REVIEW_CATEGORIES, match.category)
                /\ ArrayIncludes(REVIEW_SEVERITIES, match.severity)
        THEN [category |-> match.category, severity |-> match.severity]
        ELSE Null

\* formatCommentBody(body, suggestion); an absent suggestion is the empty text
FormatCommentBody(body, suggestion) ==
    IF suggestion = <<>> THEN body
    ELSE TrimEnd(body) \o <<"\n", "\n", "U+0060", "U+0060", "U+0060", "s", "u", "g", "g", "e", "s",
      "t", "i", "o", "n", "\n">> \o suggestion
             \o <<"\n", "U+0060", "U+0060", "U+0060", "\n">>

\* the descriptions and suggestions of the model
TagDescriptions == {<<>>, <<" ", "U", "s", "e", " ", "c", "o", "n", "s", "t", " ", " ">>, <<" ", "n", "o", "t", " ", "[", "x", "]", " ", "o", "r", " ", "[", "D",
      "O", "C", "S", ":", "H", "I", "G", "H", "]">>}

TagSuggestions == {<<>>, <<"x", " ", "=", " ", "1">>, <<"[", "T", "E", "S", "T", ":", "L", "O", "W", "]">>}

\* the comment bodies of the model
TagBodies ==
    {<<"*", "*", "[", "B", "U", "G", ":", "H", "I", "G", "H", "]", "*", "*",
      " ", "a", " ", "b", "u", "g">>, <<"[", "S", "E", "C", "U", "R", "I", "T", "Y", ":", "C", "R", "I", "T",
      "I", "C", "A", "L", "]", " ", "r", "i", "s", "k">>, <<"*", "[", "D", "O", "C", "S", ":", "L", "O", "W", "]", "*">>,
     <<"N", "o", " ", "t", "a", "g", " ", "h", "e", "r", "e">>, <<"[", "I", "N", "V", "A", "L", "I", "D", ":", "H", "I", "G", "H", "]">>, <<"[", "B", "U", "G", ":", "U", "N", "K", "N", "O", "W", "N", "]">>, <<>>,
     <<"[", "b", "u", "g", ":", "h", "i", "g", "h", "]">>, <<"[", "B", "U", "G", " ", "H", "I", "G", "H", "]">>, <<"*", "*", "[", "N", "O", "P", "E", ":", "H", "I", "G", "H", "]", "*",
      "*", " ", "[", "B", "U", "G", ":", "H", "I", "G", "H", "]">>,
     <<"s", "e", "e", " ", "[", "B", "U", "G", ":", "H", "I", "G", "H", "]">>, <<"[", "x", "]", " ", "*", "*", "[", "S", "T", "Y", "L", "E", ":", "M",
      "E", "D", "I", "U", "M", "]", "*", "*">>, <<"*", "*", "*", "[", "T", "E", "S", "T", ":", "L", "O", "W", "]">>}

InitTags ==
    /\ InitServer
    /\ cr = Idle
    /\ ret = NoRet
    /\ \/ \E c \in 1..Len(REVIEW_CATEGORIES), s \in 1..Len(REVIEW_SEVERITIES),
             description \in TagDescriptions, suggestion \in TagSuggestions :
             call = [fn |-> "formatReviewTag", category |-> REVIEW_CATEGORIES[c],
                     severity |-> REVIEW_SEVERITIES[s], description |-> description,
                     suggestion |-> suggestion]
       \/ \E body \in TagBodies : call = [fn |-> "parseReviewTag", body |-> body]

\* parseReviewTag(formatCommentBody(`${formatReviewTag(c, s)}${description}`, suggestion))
CallFormatThenParse ==
    /\ call.fn = "formatReviewTag"
    /\ ret = NoRet
    /\ ret' = Return(ParseReviewTag(
                  FormatCommentBody(FormatReviewTag(call.category, call.severity)
                                        \o call.description,
                                    call.suggestion)))
    /\ UNCHANGED <<serverVars, cr, call>>

CallParseReviewTag ==
    /\ call.fn = "parseReviewTag"
    /\ ret = NoRet
    /\ ret' = Return(ParseReviewTag(call.body))
    /\ UNCHANGED <<serverVars, cr, call>>

NextTags == CallFormatThenParse \/ CallParseReviewTag

SpecTags == InitTags /\ [][NextTags]_vars

(***************************************************************************)
(* Properties of the review tags (SpecTags).                               *)
(***************************************************************************)
\* C22: parsing a formatted tag gives back the category and the severity, also
\* with a description and a suggestion block after the tag.
C22_TagRoundTrip ==
    (call.fn = "formatReviewTag" /\ ret # NoRet) =>
        ret.value = [category |-> call.category, severity |-> call.severity]

\* a tag with a description that holds another tag and with a suggestion block was
\* formatted and parsed
C22_Witness ==
    /\ call.fn = "formatReviewTag"
    /\ ret # NoRet
    /\ call.description = <<" ", "n", "o", "t", " ", "[", "x", "]", " ", "o", "r", " ", "[", "D",
      "O", "C", "S", ":", "H", "I", "G", "H", "]">>
    /\ call.suggestion # <<>>
    /\ ret.value # Null

\* a body begins with a tag of the vocabularies, bare or in bold markers
BeginsWithTag(body) ==
    \E c \in 1..Len(REVIEW_CATEGORIES), s \in 1..Len(REVIEW_SEVERITIES),
       stars \in {<<>>, <<"*">>, <<"*", "*">>} :
        StartsWith(body, stars \o <<"[">> \o REVIEW_CATEGORIES[c] \o <<":">>
                             \o REVIEW_SEVERITIES[s] \o <<"]">>)

\* C23: parseReviewTag returns a category and a severity exactly when the body
\* begins with a bracketed tag of the vocabularies, and null otherwise.
C23_OnlyLeadingTags ==
    (call.fn = "parseReviewTag" /\ ret # NoRet) =>
        (ret.value # Null <=> BeginsWithTag(call.body))


(***************************************************************************)
(* Review statistics (gitea-review-stats): initializeStats,                *)
(* extractDescription, analyzeComment and the health score.                *)
(***************************************************************************)
MaxCalls == 2
MaxRepeats == 11

DescriptionLimit == 100

DescriptionKept == 97

CriticalWeight == 10

HighWeight == 5

MediumWeight == 2

LowWeight == 1

FullScore == 100

\* a constant array as the set of its elements
Elements(array) == {array[k] : k \in 1..Len(array)}

\* initializeStats()
InitializeStats ==
    [totalReviews |-> 0,
     totalComments |-> 0,
     byCategory |-> [c \in Elements(REVIEW_CATEGORIES) |-> 0],
     bySeverity |-> [s \in Elements(REVIEW_SEVERITIES) |-> 0],
     byFile |-> <<>>,
     byCategorySeverity |-> <<>>,
     timeline |-> <<>>,
     suggestions |-> 0,
     untaggedComments |-> 0,
     issues |-> <<>>]

\* the index after the leftmost match of /\*?\*?\[[A-Z]+:[A-Z]+\]\*?\*?\s*/ that
\* starts at index i with its bracket at index j
TagEnd(text, j) ==
    LET close == SkipUpper(text, SkipUpper(text, j + 1) + 1)
        star1 == IF OccursAt(text, close + 1, <<"*">>) THEN close + 2 ELSE close + 1
        star2 == IF star1 = close + 2 /\ OccursAt(text, star1, <<"*">>)
                 THEN star1 + 1 ELSE star1
    IN  SkipSpaces(text, star2)

RECURSIVE RemoveTags(_)
\* body.replace(/\*?\*?\[[A-Z]+:[A-Z]+\]\*?\*?\s*/g, "")
RemoveTags(text) ==
    LET StartsAt(i) ==
            \E k \in 0..2 :
                /\ \A m \in 0..(k - 1) : OccursAt(text, i + m, <<"*">>)
                /\ BracketAt(text, i + k).matched
        starts == {i \in 1..Len(text) : StartsAt(i)}
    IN  IF starts = {} THEN text
        ELSE LET start == Min(starts)
                 bracket == Min({j \in start..Len(text) : BracketAt(text, j).matched})
                 end == TagEnd(text, bracket)
             IN  SubSeq(text, 1, start - 1) \o RemoveTags(SubSeq(text, end, Len(text)))

SuggestionOpen == <<"U+0060", "U+0060", "U+0060", "s", "u", "g", "g", "e", "s", "t", "i",
      "o", "n">>

RECURSIVE RemoveSuggestions(_)
\* cleaned.replace(/```suggestion[\s\S]*?```/g, "")
RemoveSuggestions(text) ==
    LET start == IndexOf(text, SuggestionOpen, 1)
        close == IF start = 0 THEN 0
                 ELSE IndexOf(text, FenceClose, start + Len(SuggestionOpen))
    IN  IF close = 0 THEN text
        ELSE SubSeq(text, 1, start - 1)
                 \o RemoveSuggestions(SubSeq(text, close + Len(FenceClose), Len(text)))

\* extractDescription(body)
ExtractDescription(body) ==
    LET cleaned == Trim(RemoveTags(body))
        withoutSuggestion == Trim(RemoveSuggestions(cleaned))
    IN  IF Len(withoutSuggestion) > DescriptionLimit
        THEN SubSeq(withoutSuggestion, 1, DescriptionKept) \o <<".", ".", ".">>
        ELSE IF withoutSuggestion = <<>> THEN <<"(", "n", "o", " ", "d", "e", "s", "c", "r", "i", "p", "t", "i", "o",
      "n", ")">>
        ELSE withoutSuggestion

\* record[key] = (record[key] || 0) + 1
Increment(record, key) ==
    [k \in DOMAIN record \cup {key} |->
        IF k = key THEN (IF key \in DOMAIN record THEN record[key] ELSE 0) + 1
        ELSE record[k]]

\* comment.path, absent or empty: falsy
HasPath(comment) == comment.path # Null /\ comment.path # <<>>

\* what the tagged branch of analyzeComment does to the statistics
CountIssue(comment, tag, hasSuggestion, stats) ==
    [stats EXCEPT
        !.byCategory[tag.category] = @ + 1,
        !.bySeverity[tag.severity] = @ + 1,
        !.byCategorySeverity = Increment(@, tag.category \o <<":">> \o tag.severity),
        !.issues = Append(@, [category |-> tag.category,
                              severity |-> tag.severity,
                              file |-> IF HasPath(comment) THEN comment.path
                                       ELSE <<"(", "s", "u", "m", "m", "a", "r", "y", ")">>,
                              description |-> ExtractDescription(comment.body),
                              hasSuggestion |-> hasSuggestion])]

\* The mutant: a comment is counted under its file only when it has a tag.
AnalyzeCommentFileOfIssues(comment, stats) ==
    LET hasSuggestion == Includes(comment.body, SuggestionOpen)
        tag == ParseReviewTag(comment.body)
        counted == [stats EXCEPT !.totalComments = @ + 1,
                                 !.suggestions = IF hasSuggestion THEN @ + 1 ELSE @]
        sorted == IF tag # Null THEN CountIssue(comment, tag, hasSuggestion, counted)
                  ELSE [counted EXCEPT !.untaggedComments = @ + 1]
    IN  IF HasPath(comment) /\ tag # Null
        THEN [sorted EXCEPT !.byFile = Increment(@, comment.path)]
        ELSE sorted

\* analyzeComment(comment, stats): the statistics after the call
AnalyzeComment(comment, stats) ==
    LET hasSuggestion == Includes(comment.body, SuggestionOpen)
        tag == ParseReviewTag(comment.body)
        counted == [stats EXCEPT !.totalComments = @ + 1,
                                 !.suggestions = IF hasSuggestion THEN @ + 1 ELSE @]
        sorted == IF tag # Null THEN CountIssue(comment, tag, hasSuggestion, counted)
                  ELSE [counted EXCEPT !.untaggedComments = @ + 1]
    IN  IF HasPath(comment)
        THEN [sorted EXCEPT !.byFile = Increment(@, comment.path)]
        ELSE sorted

\* The mutant: the score is not floored.
HealthScoreUnfloored(stats) ==
    FullScore - (stats.bySeverity[<<"C", "R", "I", "T", "I", "C", "A", "L">>] * CriticalWeight
                     + stats.bySeverity[<<"H", "I", "G", "H">>] * HighWeight
                     + stats.bySeverity[<<"M", "E", "D", "I", "U", "M">>] * MediumWeight
                     + stats.bySeverity[<<"L", "O", "W">>] * LowWeight)

\* Math.max(0, 100 - totalWeight)
HealthScore(stats) ==
    LET criticalWeight == stats.bySeverity[<<"C", "R", "I", "T", "I", "C", "A", "L">>] * CriticalWeight
        highWeight == stats.bySeverity[<<"H", "I", "G", "H">>] * HighWeight
        mediumWeight == stats.bySeverity[<<"M", "E", "D", "I", "U", "M">>] * MediumWeight
        lowWeight == stats.bySeverity[<<"L", "O", "W">>] * LowWeight
        totalWeight == criticalWeight + highWeight + mediumWeight + lowWeight
    IN  Max({0, FullScore - totalWeight})

\* the comments of the model
LongText == [k \in 1..(DescriptionLimit + 1) |-> "A"]

StatsBodies ==
    {<<"*", "*", "[", "S", "E", "C", "U", "R", "I", "T", "Y", ":", "C", "R",
      "I", "T", "I", "C", "A", "L", "]", "*", "*", " ", "C", "r", "i",
      "t", "i", "c", "a", "l">>, <<"[", "B", "U", "G", ":", "H", "I", "G", "H", "]", " ", "n", "u", "l",
      "l", " ", "a", "c", "c", "e", "s", "s">>,
     <<"*", "*", "[", "P", "E", "R", "F", "O", "R", "M", "A", "N", "C", "E",
      ":", "M", "E", "D", "I", "U", "M", "]", "*", "*">>,
     <<"*", "*", "[", "S", "T", "Y", "L", "E", ":", "L", "O", "W", "]", "*",
      "*", " ", "U", "s", "e", " ", "c", "o", "n", "s", "t", "\n",
      "U+0060", "U+0060", "U+0060", "s", "u", "g", "g", "e", "s", "t",
      "i", "o", "n", "\n", "x", " ", "=", " ", "1", ";", "\n", "U+0060",
      "U+0060", "U+0060">>,
     <<"N", "i", "c", "e", " ", "w", "o", "r", "k", "!", "\n", "U+0060",
      "U+0060", "U+0060", "s", "u", "g", "g", "e", "s", "t", "i", "o",
      "n", "\n", "y", "\n", "U+0060", "U+0060", "U+0060", "\n">>,
     <<"[", "N", "O", "P", "E", ":", "H", "I", "G", "H", "]", " ", "n", "o",
      " ", "t", "a", "g">>,
     <<"*", "*", "[", "D", "O", "C", "S", ":", "L", "O", "W", "]", "*", "*",
      " ">> \o LongText}

StatsPaths == {Null, <<"a", ".", "t", "s">>, <<"s", "r", "c", "/", "b", ".", "t", "s">>}

CriticalComment == [body |-> <<"*", "*", "[", "S", "E", "C", "U", "R", "I", "T", "Y", ":", "C", "R",
      "I", "T", "I", "C", "A", "L", "]", "*", "*", " ", "C", "r", "i",
      "t", "i", "c", "a", "l">>, path |-> Null]

InitStats ==
    /\ InitServer
    /\ cr = Idle
    /\ ret = NoRet
    /\ call = [fn |-> "analyzeComment", stats |-> InitializeStats, comments |-> <<>>]

\* analyzeComment(comment, stats) for one more comment of a review
Analyze ==
    /\ call.fn = "analyzeComment"
    /\ Len(call.comments) < MaxCalls
    /\ \E body \in StatsBodies, path \in StatsPaths :
          LET comment == [body |-> body, path |-> path]
          IN  /\ call' = [call EXCEPT !.stats = AnalyzeComment(comment, call.stats),
                                      !.comments = Append(@, comment)]
              /\ ret' = Return(HealthScore(call'.stats))
    /\ UNCHANGED <<serverVars, cr>>

\* analyzeComment({ body: "**[SECURITY:CRITICAL]** Critical" }, stats), in a loop
AnalyzeCritical ==
    /\ call.fn = "analyzeComment"
    /\ Len(call.comments) < MaxRepeats
    /\ call' = [call EXCEPT !.stats = AnalyzeComment(CriticalComment, call.stats),
                            !.comments = Append(@, CriticalComment)]
    /\ ret' = Return(HealthScore(call'.stats))
    /\ UNCHANGED <<serverVars, cr>>

NextStats == Analyze \/ AnalyzeCritical

SpecStats == InitStats /\ [][NextStats]_vars

(***************************************************************************)
(* Properties of the statistics (SpecStats).                               *)
(***************************************************************************)
RECURSIVE SumOf(_)
\* the sum of the counts of a record
SumOf(record) ==
    IF DOMAIN record = {} THEN 0
    ELSE LET key == CHOOSE k \in DOMAIN record : TRUE
         IN  record[key] + SumOf([k \in DOMAIN record \ {key} |-> record[k]])

\* the number of issues of a severity among the issue records
IssuesOf(stats, severity) ==
    Cardinality({k \in 1..Len(stats.issues) : stats.issues[k].severity = severity})

\* the weight of the issue records
IssueWeight(stats) ==
    10 * IssuesOf(stats, <<"C", "R", "I", "T", "I", "C", "A", "L">>) + 5 * IssuesOf(stats, <<"H", "I", "G", "H">>)
        + 2 * IssuesOf(stats, <<"M", "E", "D", "I", "U", "M">>) + IssuesOf(stats, <<"L", "O", "W">>)

\* C24: the health score is max(0, 100 - (10 CRITICAL + 5 HIGH + 2 MEDIUM + LOW)) of
\* the aggregated severities, lies in 0..100, and analyzing one more comment never
\* increases it.
C24_HealthScore ==
    /\ []((call.fn = "analyzeComment" /\ ret # NoRet) =>
            /\ ret.value = IF IssueWeight(call.stats) >= 100 THEN 0
                           ELSE 100 - IssueWeight(call.stats)
            /\ ret.value \in 0..100)
    /\ [][(call.fn = "analyzeComment" /\ ret # NoRet) => ret'.value <= ret.value]_vars

\* the score has reached the floor with a weight above 100
C24_Witness ==
    /\ call.fn = "analyzeComment"
    /\ ret # NoRet
    /\ IssueWeight(call.stats) > 100
    /\ ret.value = 0

\* the comments analyzed so far that carried a path
WithPath == SelectSeq(call.comments, LAMBDA comment : comment.path # Null)

\* C27: after any sequence of analyzeComment calls totalComments is the number of
\* calls and equals untaggedComments plus the number of issues; the counts by
\* category, by severity and by category and severity each add up to the number
\* of issues; suggestions is at most totalComments; the counts by file add up to
\* the number of analyzed comments that carried a path.
C27_CountsAddUp ==
    call.fn = "analyzeComment" =>
        LET stats == call.stats
        IN  /\ stats.totalComments = Len(call.comments)
            /\ stats.totalComments = stats.untaggedComments + Len(stats.issues)
            /\ SumOf(stats.byCategory) = Len(stats.issues)
            /\ SumOf(stats.bySeverity) = Len(stats.issues)
            /\ SumOf(stats.byCategorySeverity) = Len(stats.issues)
            /\ stats.suggestions <= stats.totalComments
            /\ SumOf(stats.byFile) = Len(WithPath)

\* an untagged comment with a path and a tagged comment with a suggestion were
\* analyzed
C27_Witness ==
    /\ call.fn = "analyzeComment"
    /\ call.stats.untaggedComments = 1
    /\ Len(call.stats.issues) = 1
    /\ call.stats.suggestions = 1
    /\ call.stats.issues[1].hasSuggestion
    /\ SumOf(call.stats.byFile) = 2


(***************************************************************************)
(* Properties of concurrent reviews, repeated deliveries (Spec) and        *)
(* retried reviews (FairSpecRetry).                                        *)
(***************************************************************************)
\* the tasks of a repository that submitted their review and completed, statistics
\* included
SubmittedAndCompleted(repositoryId) ==
    {r \in 1..Len(task) :
        /\ task[r].repositoryId = repositoryId
        /\ task[r].pc = "done"
        /\ task[r].error = ""
        /\ \E k \in 1..Len(task[r].calls) : task[r].calls[k] = "createReview"}

\* C28: each review that submitted its review and completed has increased the
\* reviewCount of its repository by one, whatever the interleaving of the tasks.
C28_ReviewCountCountsCompletions ==
    \A repositoryId \in DOMAIN repositories :
        repositories[repositoryId].reviewCount =
            InitRepositories[repositoryId].reviewCount
                + Cardinality(SubmittedAndCompleted(repositoryId))

\* C29: no two review records come from deliveries with the same delivery id.
C29_DeliveryHandledOnce ==
    \A i, j \in 1..Len(reviews) :
        (/\ i # j
         /\ webhookLogs[reviews[i].webhookEventId].repositoryId
                = webhookLogs[reviews[j].webhookEventId].repositoryId)
            => webhookLogs[reviews[i].webhookEventId].deliveryId
                   # webhookLogs[reviews[j].webhookEventId].deliveryId

FairSpecRetry == SpecRetry /\ \A r \in 1..MaxDeliveries : WF_vars(TaskStep(r))

\* C30: after a retry request was answered with success the record of the review
\* eventually reaches completed or failed.
C30_RetriedReviewSettles ==
    \A r \in 1..MaxDeliveries :
        (call.fn = "retry" /\ ret.status = 200 /\ call.id = r)
            ~> (Len(reviews) >= r /\ reviews[r].status \in {"completed", "failed"})

====
